---- MODULE Spec2Model ----
(***************************************************************************)
(* Model of quota-tools' quotasys.c: mount option parsing, quota file name *)
(* resolution, filesystem classification, kernel interface probing, the    *)
(* mount table cache and the mountpoint scan.                              *)
(*                                                                         *)
(* C strings are sequences of one-character strings; a pointer into a      *)
(* string is a 1-based index, the NULL pointer is 0, and the terminating   *)
(* NUL is read one place past the last character.                          *)
(***************************************************************************)
EXTENDS Integers, Sequences, FiniteSets, TLC

VARIABLES
    qf_call,        \* arguments of the get_qf_name call under study
    qf_ret,         \* what get_qf_name returned (NotCalled before the call)
    cl_call,        \* arguments and kernel answers of a hasquota classification
    cl_ret,         \* what hasquota returned for each quota type
    kernel_iface,   \* quotasys.c: int kernel_iface
    kernel_qfmt,    \* quotasys.c: kernel_qfmt[0 .. kernel_qfmt_num-1]
    sigsegv,        \* the installed SIGSEGV disposition
    ki_pc,          \* position of the process around init_kernel_interface
    ki_oldsig,      \* init_kernel_interface: struct sigaction oldsig
    ki_probes,      \* what the kernel answered to the probes of the run
    kq_call,        \* arguments and kernel answers of a kern_quota_on call
    kq_ret,         \* what kern_quota_on returned
    build,          \* compile-time options of the build: XFS_ROOTHACK, RPC
    mtab,           \* the records of the mount table file, in file order
    mpos,           \* how many records getmntent has handed out
    scan_flags,     \* cache_mnt_table / process_dirs: int flags
    mnt_entries,    \* quotasys.c: mnt_entries[0 .. mnt_entries_cnt-1]
    autofsdir,      \* cache_mnt_table: autofsdir[0 .. autofsdircnt-1]
    classified,     \* positions of the records hasquota was called on
    diag,           \* the diagnostics errstr has printed during the scan
    dirs,           \* the targets handed to init_mounts_scan
    check_dirs,     \* quotasys.c: check_dirs[0 .. check_dirs_cnt-1]
    act_checked,    \* quotasys.c: int act_checked
    pc,             \* position of the process around the mount scan
    caller,         \* who runs the scan: a direct caller or create_handle_list
    hlist,          \* create_handle_list: static hlist[0 .. gotmnt]
    gotmnt,         \* create_handle_list: int gotmnt
    ret             \* what the last finished call returned

qfVars == <<qf_call, qf_ret>>
clVars == <<cl_call, cl_ret>>
kiVars == <<kernel_iface, kernel_qfmt, sigsegv, ki_pc, ki_oldsig, ki_probes>>
kqVars == <<kq_call, kq_ret>>

cacheVars == <<mtab, mpos, scan_flags, mnt_entries, autofsdir, classified, diag>>
selVars == <<dirs, check_dirs, act_checked>>
procVars == <<pc, caller, hlist, gotmnt, ret>>
scanVars == <<cacheVars, selVars, procVars>>
vars == <<qfVars, clVars, kiVars, kqVars, build, scanVars>>

-----------------------------------------------------------------------------
(* Bounds of the model *)

MaxOpts == 2        \* options in a generated mount option string

-----------------------------------------------------------------------------
(* C strings *)

NUL == ""
\* the value of a result variable before the call it records
NotCalled == [called |-> FALSE]
\* the text of a string nobody stored
NoName == <<"(null)">>

\* the parts of the state a specification leaves alone hold these values
NoCall == [none |-> TRUE]
QfQuiet == qf_call = NoCall /\ qf_ret = NotCalled
ClQuiet == cl_call = NoCall /\ cl_ret = NotCalled
KqQuiet == kq_call = NoCall /\ kq_ret = NotCalled
KiQuiet ==
    /\ kernel_iface = 0 /\ kernel_qfmt = <<>> /\ sigsegv = "SIG_DFL"
    /\ ki_pc = "start" /\ ki_oldsig = "unset" /\ ki_probes = NoCall

ScanQuiet ==
    /\ mtab = <<>> /\ mpos = 0 /\ scan_flags = 0 /\ mnt_entries = <<>>
    /\ autofsdir = <<>> /\ classified = {} /\ diag = {}
    /\ dirs = <<>> /\ check_dirs = <<>> /\ act_checked = -1
    /\ pc = "idle" /\ caller = [kind |-> "none", count |-> 0, fmt |-> -1, calls |-> 0]
    /\ hlist = <<>> /\ gotmnt = 0
    /\ ret = NotCalled

\* the build options: whether XFS_ROOTHACK and RPC are defined
Builds == [roothack : BOOLEAN, rpc : BOOLEAN]
DefaultBuild == [roothack |-> FALSE, rpc |-> TRUE]

Min(a, b) == IF a < b THEN a ELSE b

CharAt(s, i) == IF i >= 1 /\ i <= Len(s) THEN s[i] ELSE NUL

\* text of the C string that starts at pointer p inside s
StrFrom(s, p) == SubSeq(s, p, Len(s))

Take(s, n) == SubSeq(s, 1, Min(Len(s), n))

PATH_MAX == 4096

\* strncpy(d, s, len); d[len - 1] = 0
sstrncpy(s, len) == Take(s, len - 1)

\* strncat(d, s, len); d[len - 1] = 0
sstrncat(d, s, len) == Take(d \o Take(s, len), len - 1)

\* first index >= p whose character is NUL or in stops
RECURSIVE ScanTo(_, _, _)
ScanTo(s, p, stops) ==
    IF CharAt(s, p) = NUL \/ CharAt(s, p) \in stops THEN p
    ELSE ScanTo(s, p + 1, stops)

\* strchr(s + p - 1, c): 0 when c does not occur
strchr(s, p, c) ==
    LET e == ScanTo(s, p, {c}) IN IF CharAt(s, e) = c THEN e ELSE 0

-----------------------------------------------------------------------------
(* Mount option names *)

MNTOPT_USRQUOTA  == <<"u","s","r","q","u","o","t","a">>
MNTOPT_GRPQUOTA  == <<"g","r","p","q","u","o","t","a">>
MNTOPT_USRJQUOTA == <<"u","s","r","j","q","u","o","t","a">>
MNTOPT_GRPJQUOTA == <<"g","r","p","j","q","u","o","t","a">>
MNTOPT_QUOTA     == <<"q","u","o","t","a">>
MNTOPT_NOQUOTA   == <<"n","o","q","u","o","t","a">>
MNTOPT_NOAUTO    == <<"n","o","a","u","t","o">>
MNTOPT_BIND      == <<"b","i","n","d">>
MNTOPT_LOOP      == <<"l","o","o","p">>

USRQUOTA == 0
GRPQUOTA == 1
QuotaTypes == {USRQUOTA, GRPQUOTA}

QF_ERROR      == -1
QF_VFSOLD     == 0
QF_VFSV0      == 1
QF_VFSV1      == 2
QF_RPC        == 3
QF_XFS        == 4
QF_META       == 5
QF_VFSUNKNOWN == 6

\* INITQFNAMES and INITQFBASENAMES
extensions(type) ==
    IF type = USRQUOTA THEN <<"u","s","e","r">> ELSE <<"g","r","o","u","p">>

basenames(fmt) ==
    IF fmt = QF_VFSOLD THEN <<"q","u","o","t","a">>
    ELSE IF fmt \in {QF_VFSV0, QF_VFSV1} THEN <<"a","q","u","o","t","a">>
    ELSE <<>>

-----------------------------------------------------------------------------
(* Mount option parsing *)

\* one turn of str_hasmntopt's do-while loop, started with p at an option
RECURSIVE str_hasmntopt_from(_, _, _)
str_hasmntopt_from(optstring, opt, s) ==
    LET p1 == ScanTo(optstring, s, {",", "="})
        found == (p1 - s = Len(opt)) /\ SubSeq(optstring, s, p1 - 1) = opt
        p2 == IF CharAt(optstring, p1) = "="
              THEN ScanTo(optstring, p1 + 1, {","}) ELSE p1
        p3 == IF CharAt(optstring, p2) # NUL THEN p2 + 1 ELSE p2
    IN  IF found THEN s
        ELSE IF CharAt(optstring, p3) # NUL
             THEN str_hasmntopt_from(optstring, opt, p3)
             ELSE 0

\* pointer to the given option in the option string, 0 for NULL
str_hasmntopt(optstring, opt) == str_hasmntopt_from(optstring, opt, 1)

\* pointer to the argument of the option when it has one, 0 for NULL
hasmntoptarg(optstring, opt) ==
    LET p == str_hasmntopt(optstring, opt)
        q == p + Len(opt)
    IN  IF p = 0 THEN 0
        ELSE IF CharAt(optstring, q) = "=" /\ CharAt(optstring, q + 1) # ","
             THEN q + 1
             ELSE 0

\* the text copy_mntoptarg leaves in buf: the C string at optarg, cut at ','
copy_mntoptarg(optarg, buflen) ==
    LET sep == strchr(optarg, 1, ",")
    IN  IF sep = 0 THEN sstrncpy(optarg, Min(buflen, Len(optarg) + 1))
        ELSE sstrncpy(optarg, Min(buflen, (sep - 1) + 1))

-----------------------------------------------------------------------------
(* Quota file name resolution *)

NF_EXIST  == 1
NF_FORMAT == 2

ENOENT == 2
EPERM  == 1
EACCES == 13

HasFlag(flags, f) == (flags \div f) % 2 = 1

is_tree_qfmt(fmt) == fmt \in {QF_VFSV0, QF_VFSV1}

\* check_fmtfile_ok with a diagnostic for every stat failure
check_fmtfile_ok_loud(fmt, flags, env) ==
    IF flags = 0 THEN [ok |-> 1, diag |-> FALSE]
    ELSE IF HasFlag(flags, NF_EXIST) /\ env.stat_errno # 0
    THEN [ok |-> 0, diag |-> TRUE]
    ELSE [ok |-> 1, diag |-> FALSE]

\* env: stat_errno (0 = stat succeeded), open_errno (0 = open succeeded),
\* check_ret (verdict of the format's check_file).
\* Result: ok (the C return value), diag (whether errstr was called).
check_fmtfile_ok(fmt, flags, env) ==
    IF flags = 0 THEN [ok |-> 1, diag |-> FALSE]
    ELSE IF HasFlag(flags, NF_EXIST) /\ env.stat_errno # 0
    THEN [ok |-> 0, diag |-> env.stat_errno # ENOENT]
    ELSE IF HasFlag(flags, NF_FORMAT)
    THEN IF env.open_errno = 0
         THEN [ok |-> IF env.check_ret <= 0 THEN 0 ELSE 1, diag |-> FALSE]
         ELSE IF env.open_errno # ENOENT /\ env.open_errno # EPERM
              THEN [ok |-> 0, diag |-> TRUE]
              ELSE [ok |-> 1, diag |-> FALSE]
    ELSE [ok |-> 1, diag |-> FALSE]

\* sstrncpy(qfullname, mnt->me_dir, ...); sstrncat(qfullname, "/", ...)
qf_jprefix_nosep(me_dir) == sstrncpy(me_dir, PATH_MAX)

qf_jprefix(me_dir) ==
    sstrncat(sstrncpy(me_dir, PATH_MAX), <<"/">>, PATH_MAX)

\* The option branch get_qf_name takes: the pointer it leaves in pathname,
\* has_quota_file_definition and the prefix it has put into qfullname.
\* found = FALSE is the final "else return -1".
qf_branch(me_opts, me_dir, type) ==
    LET u  == str_hasmntopt(me_opts, MNTOPT_USRQUOTA)
        uj == hasmntoptarg(me_opts, MNTOPT_USRJQUOTA)
        g  == str_hasmntopt(me_opts, MNTOPT_GRPQUOTA)
        gj == hasmntoptarg(me_opts, MNTOPT_GRPJQUOTA)
        q  == str_hasmntopt(me_opts, MNTOPT_QUOTA)
        jprefix == qf_jprefix(me_dir)
    IN  IF type = USRQUOTA /\ u # 0
        THEN [found |-> TRUE, pathname |-> u + Len(MNTOPT_USRQUOTA),
              def |-> CharAt(me_opts, u + Len(MNTOPT_USRQUOTA)) = "=",
              qfullname |-> <<>>]
        ELSE IF type = USRQUOTA /\ uj # 0
        THEN [found |-> TRUE, pathname |-> uj, def |-> TRUE, qfullname |-> jprefix]
        ELSE IF type = GRPQUOTA /\ g # 0
        THEN LET pn == g + Len(MNTOPT_GRPQUOTA)
             IN  IF CharAt(me_opts, pn) = "="
                 THEN [found |-> TRUE, pathname |-> pn + 1, def |-> TRUE,
                       qfullname |-> <<>>]
                 ELSE [found |-> TRUE, pathname |-> pn, def |-> FALSE,
                       qfullname |-> <<>>]
        ELSE IF type = GRPQUOTA /\ gj # 0
        THEN [found |-> TRUE, pathname |-> gj, def |-> TRUE, qfullname |-> jprefix]
        ELSE IF type = USRQUOTA /\ q # 0
        THEN LET pn == q + Len(MNTOPT_QUOTA)
             IN  IF CharAt(me_opts, pn) = "="
                 THEN [found |-> TRUE, pathname |-> pn + 1, def |-> TRUE,
                       qfullname |-> <<>>]
                 ELSE [found |-> TRUE, pathname |-> pn, def |-> FALSE,
                       qfullname |-> <<>>]
        ELSE [found |-> FALSE, pathname |-> 0, def |-> FALSE, qfullname |-> <<>>]

qf_default_name_noext(me_dir, type, fmt) ==
    Take(me_dir \o <<"/">> \o basenames(fmt), PATH_MAX - 1)

\* snprintf(qfullname, PATH_MAX, "%s/%s.%s", me_dir, basenames[fmt], extensions[type])
qf_default_name(me_dir, type, fmt) ==
    Take(me_dir \o <<"/">> \o basenames(fmt) \o <<".">> \o extensions(type),
         PATH_MAX - 1)

\* Result: ret (0 or -1), filename (NoName when nothing is stored), diag.
get_qf_name(me_opts, me_dir, type, fmt, flags, env) ==
    LET b == qf_branch(me_opts, me_dir, type)
        len == Len(b.qfullname)
        qfullname ==
            IF b.def
            THEN b.qfullname \o
                 copy_mntoptarg(StrFrom(me_opts, b.pathname), PATH_MAX - len)
            ELSE qf_default_name(me_dir, type, fmt)
        chk == check_fmtfile_ok(fmt, flags, env)
    IN  IF ~b.found
        THEN [called |-> TRUE, ret |-> -1, filename |-> NoName, diag |-> FALSE]
        ELSE IF chk.ok # 0
        THEN [called |-> TRUE, ret |-> 0, filename |-> qfullname, diag |-> chk.diag]
        ELSE [called |-> TRUE, ret |-> -1, filename |-> NoName, diag |-> chk.diag]

-----------------------------------------------------------------------------
(* Kernel interface probing *)

IFACE_VFSOLD  == 1
IFACE_VFSV0   == 2
IFACE_GENERIC == 3

EINVAL  == 22
ENOSYS  == 38
ENOTSUP == 95

\* What the probes of one init_kernel_interface run answer:
\*   xfs_proc    stat("/proc/fs/xfs/stat") succeeded
\*   xgetqstat   errno of quotactl(Q_XGETQSTAT) on /dev/root, 0 = success
\*   quota_proc  errno of stat("/proc/sys/fs/quota"), 0 = success
\*   v2_stats    errno of quotactl(Q_V2_GETSTATS), 0 = success
\*   v1_stats    errno of quotactl(Q_V1_GETSTATS), 0 = success
\*   v1_quota    errno of quotactl(Q_V1_GETQUOTA) on /dev/null, 0 = success
Probes ==
    [ xfs_proc : BOOLEAN, xgetqstat : {0, EINVAL, ENOSYS, ENOENT},
      quota_proc : {0, ENOENT, EACCES}, v2_stats : {0, ENOSYS, ENOTSUP, EINVAL},
      v1_stats : {0, EINVAL}, v1_quota : {0, EINVAL, ENOENT} ]

\* kernel_qfmt after the XFS probe
ki_xfs_formats(pr) ==
    IF pr.xfs_proc THEN <<QF_XFS>>
    ELSE IF pr.xgetqstat = 0 \/ (pr.xgetqstat # EINVAL /\ pr.xgetqstat # ENOSYS)
         THEN <<QF_XFS>>
         ELSE <<>>

\* the RedHat 7.1 disambiguation by the two version-1 error codes
ki_legacy_is_v0_stats_only(pr) == pr.v1_stats = 0

ki_legacy_is_v0(pr) == pr.v1_stats = 0 /\ pr.v1_quota = EINVAL

\* kernel_iface and kernel_qfmt as the probing part of init_kernel_interface
\* leaves them; old_iface is kernel_iface before the run
ki_probe(pr, old_iface) ==
    LET xf == ki_xfs_formats(pr)
    IN  IF pr.quota_proc = 0 \/ pr.quota_proc # ENOENT
        THEN [iface |-> IFACE_GENERIC,
              qfmt  |-> xf \o <<QF_META, QF_VFSOLD, QF_VFSV0, QF_VFSV1>>]
        ELSE IF pr.v2_stats = 0
        THEN [iface |-> IFACE_VFSV0, qfmt |-> xf \o <<QF_VFSV0>>]
        ELSE IF pr.v2_stats # ENOSYS /\ pr.v2_stats # ENOTSUP
        THEN IF ki_legacy_is_v0(pr)
             THEN [iface |-> IFACE_VFSV0, qfmt |-> xf \o <<QF_VFSV0>>]
             ELSE [iface |-> IFACE_VFSOLD, qfmt |-> xf \o <<QF_VFSOLD>>]
        ELSE [iface |-> old_iface, qfmt |-> xf]

\* the answers the run has seen: a probe that was not made has no answer
NotAsked == -1

ki_asked(pr) ==
    LET generic == pr.quota_proc # ENOENT
        v2      == IF generic THEN NotAsked ELSE pr.v2_stats
        legacy  == ~generic /\ pr.v2_stats \notin {0, ENOSYS, ENOTSUP}
    IN  [ xfs_proc   |-> pr.xfs_proc,
          xgetqstat  |-> IF pr.xfs_proc THEN NotAsked ELSE pr.xgetqstat,
          quota_proc |-> pr.quota_proc,
          v2_stats   |-> v2,
          v1_stats   |-> IF legacy THEN pr.v1_stats ELSE NotAsked,
          v1_quota   |-> IF legacy THEN pr.v1_quota ELSE NotAsked ]

\* sigemptyset and sigaction(SIGSEGV, &sig, &oldsig): install SIG_IGN or die
KI_Install ==
    /\ ki_pc = "start"
    /\ \E ok \in BOOLEAN :
          IF ok
          THEN /\ ki_oldsig' = sigsegv
               /\ sigsegv' = "SIG_IGN"
               /\ ki_pc' = "probing"
          ELSE /\ ki_pc' = "exited"
               /\ UNCHANGED <<sigsegv, ki_oldsig>>
    /\ UNCHANGED <<kernel_iface, kernel_qfmt, ki_probes, qfVars, clVars, kqVars, build, scanVars>>

\* the probes, with whatever the kernel answers
KI_Probe ==
    /\ ki_pc = "probing"
    /\ \E pr \in Probes :
          /\ kernel_iface' = ki_probe(pr, kernel_iface).iface
          /\ kernel_qfmt' = ki_probe(pr, kernel_iface).qfmt
          /\ ki_probes' = ki_asked(pr)
    /\ ki_pc' = "restoring"
    /\ UNCHANGED <<sigsegv, ki_oldsig, qfVars, clVars, kqVars, build, scanVars>>

\* sigaction(SIGSEGV, &oldsig, NULL): restore and return, or die
KI_Restore_override_left ==
    /\ ki_pc = "restoring"
    /\ ki_pc' = "returned"
    /\ UNCHANGED <<sigsegv, kernel_iface, kernel_qfmt, ki_oldsig, ki_probes, qfVars,
                   clVars, kqVars, build, scanVars>>

KI_Restore ==
    /\ ki_pc = "restoring"
    /\ \E ok \in BOOLEAN :
          IF ok
          THEN /\ sigsegv' = ki_oldsig
               /\ ki_pc' = "returned"
          ELSE /\ ki_pc' = "exited"
               /\ UNCHANGED sigsegv
    /\ UNCHANGED <<kernel_iface, kernel_qfmt, ki_oldsig, ki_probes, qfVars, clVars, kqVars, build, scanVars>>

\* kern_qfmt_supp
kern_qfmt_supp(fmt, qfmts) ==
    IF fmt = -1 THEN Len(qfmts) > 0
    ELSE \E i \in 1..Len(qfmts) : qfmts[i] = fmt

-----------------------------------------------------------------------------
(* Is quota turned on: kern_quota_on *)

QFMT_VFS_OLD == 1
QFMT_VFS_V0  == 2
QFMT_OCFS2   == 3
QFMT_VFS_V1  == 4

XFS_QUOTA_UDQ_ACCT == 1
XFS_QUOTA_GDQ_ACCT == 4

kern2utilfmt(kernfmt) ==
    IF kernfmt = QFMT_VFS_OLD THEN QF_VFSOLD
    ELSE IF kernfmt = QFMT_VFS_V0 THEN QF_VFSV0
    ELSE IF kernfmt = QFMT_VFS_V1 THEN QF_VFSV1
    ELSE IF kernfmt = QFMT_OCFS2 THEN QF_META
    ELSE -1

\* xfs: [ok, qs_flags], the answer of quotactl(Q_XFS_GETQSTAT)
xfs_kern_quota_on(type, xfs) ==
    /\ xfs.ok
    /\ \/ type = USRQUOTA /\ HasFlag(xfs.qs_flags, XFS_QUOTA_UDQ_ACCT)
       \/ type = GRPQUOTA /\ HasFlag(xfs.qs_flags, XFS_QUOTA_GDQ_ACCT)

\* env: xfs (as above), getfmt ([ok, fmt] of quotactl(Q_GETFMT)),
\*      v2_getquota and v1_getquota (whether quotactl(Q_Vn_GETQUOTA) succeeded)
kern_live_format(fmt, iface, env) ==
    IF iface = IFACE_GENERIC
    THEN IF env.getfmt.ok /\ kern2utilfmt(env.getfmt.fmt) >= 0
         THEN kern2utilfmt(env.getfmt.fmt)
         ELSE -1
    ELSE IF (fmt = -1 \/ fmt = QF_VFSV0) /\ env.v2_getquota THEN QF_VFSV0
    ELSE IF (fmt = -1 \/ fmt = QF_VFSOLD) /\ env.v1_getquota THEN QF_VFSOLD
    ELSE -1

kern_quota_on_unclassified(me_qfmt, type, fmt, iface, env) ==
    IF fmt = QF_RPC THEN -1
    ELSE IF me_qfmt = QF_XFS
    THEN IF (fmt = -1 \/ fmt = QF_XFS) /\ xfs_kern_quota_on(type, env.xfs)
         THEN QF_XFS ELSE -1
    ELSE IF fmt = QF_XFS THEN -1
    ELSE IF me_qfmt = QF_META THEN QF_META
    ELSE kern_live_format(fmt, iface, env)

kern_quota_on_live_meta(me_qfmt, type, fmt, iface, env) ==
    IF me_qfmt < 0 THEN -1
    ELSE IF fmt = QF_RPC THEN -1
    ELSE IF me_qfmt = QF_XFS
    THEN IF (fmt = -1 \/ fmt = QF_XFS) /\ xfs_kern_quota_on(type, env.xfs)
         THEN QF_XFS ELSE -1
    ELSE IF fmt = QF_XFS THEN -1
    ELSE kern_live_format(fmt, iface, env)

\* me_qfmt is mnt->me_qfmt[type]
kern_quota_on(me_qfmt, type, fmt, iface, env) ==
    IF me_qfmt < 0 THEN -1
    ELSE IF fmt = QF_RPC THEN -1
    ELSE IF me_qfmt = QF_XFS
    THEN IF (fmt = -1 \/ fmt = QF_XFS) /\ xfs_kern_quota_on(type, env.xfs)
         THEN QF_XFS ELSE -1
    ELSE IF fmt = QF_XFS THEN -1
    ELSE IF me_qfmt = QF_META THEN QF_META
    ELSE kern_live_format(fmt, iface, env)

KqEnvs ==
    [ xfs : { [ok |-> FALSE, qs_flags |-> 0], [ok |-> TRUE, qs_flags |-> 0],
              [ok |-> TRUE, qs_flags |-> XFS_QUOTA_UDQ_ACCT],
              [ok |-> TRUE, qs_flags |-> XFS_QUOTA_GDQ_ACCT] },
      getfmt : [ok : BOOLEAN, fmt : {QFMT_VFS_OLD, QFMT_VFS_V0, QFMT_OCFS2, 0}],
      v2_getquota : BOOLEAN, v1_getquota : BOOLEAN ]

KqCalls ==
    [ me_qfmt : {-1, QF_RPC, QF_XFS, QF_META, QF_VFSUNKNOWN},
      type : QuotaTypes,
      fmt : {-1, QF_VFSOLD, QF_VFSV0, QF_VFSV1, QF_RPC, QF_XFS, QF_META},
      env : KqEnvs ]

\* a caller asks whether quota is on, once the interface has been probed
KernQuotaOn ==
    /\ ki_pc = "returned"
    /\ ~kq_ret.called
    /\ \E c \in KqCalls :
          /\ kq_call' = c
          /\ kq_ret' = [called |-> TRUE,
                        ret |-> kern_quota_on(c.me_qfmt, c.type, c.fmt,
                                              kernel_iface, c.env)]
    /\ UNCHANGED <<kiVars, qfVars, clVars, build, scanVars>>

KiInit ==
    /\ kernel_iface = 0 /\ kernel_qfmt = <<>>
    /\ sigsegv \in {"SIG_DFL", "handler"}
    /\ ki_pc = "start" /\ ki_oldsig = "unset" /\ ki_probes = NoCall

KernNext == KI_Install \/ KI_Probe \/ KI_Restore \/ KernQuotaOn

InitKern ==
    KiInit /\ KqQuiet /\ QfQuiet /\ ClQuiet /\ build = DefaultBuild /\ ScanQuiet

SpecKern == InitKern /\ [][KernNext]_vars

\* one run of init_kernel_interface on its own
KiNext == KI_Install \/ KI_Probe \/ KI_Restore

SpecKi == InitKern /\ [][KiNext]_vars

-----------------------------------------------------------------------------
(* Inputs of the quota file name checks: option strings written as lists   *)
(* of options, each a name, an optional '=' and an argument.               *)

Opt(name, eq, arg) == [name |-> name, eq |-> eq, arg |-> arg]

OptText(o) == IF o.eq THEN o.name \o <<"=">> \o o.arg ELSE o.name

RECURSIVE OptsText(_)
OptsText(os) ==
    IF os = <<>> THEN <<>>
    ELSE IF Len(os) = 1 THEN OptText(os[1])
    ELSE OptText(os[1]) \o <<",">> \o OptsText(Tail(os))

S_q        == <<"/","q">>
S_journal  == <<"/","m","y","/","j","o","u","r","n","a","l">>
S_aq_user  == <<"a","q","u","o","t","a",".","u","s","e","r">>
S_jqfmt    == <<"j","q","f","m","t">>
S_vfsv0    == <<"v","f","s","v","0">>
S_rw       == <<"r","w">>
S_dir_a    == <<"/","a">>
S_dir_root == <<"/">>

QfOptions ==
    { Opt(MNTOPT_USRQUOTA, FALSE, <<>>),  Opt(MNTOPT_USRQUOTA, TRUE, S_q),
      Opt(MNTOPT_GRPQUOTA, FALSE, <<>>),  Opt(MNTOPT_GRPQUOTA, TRUE, S_q),
      Opt(MNTOPT_USRJQUOTA, TRUE, S_journal), Opt(MNTOPT_USRJQUOTA, TRUE, S_aq_user),
      Opt(MNTOPT_USRJQUOTA, TRUE, <<>>),
      Opt(MNTOPT_GRPJQUOTA, TRUE, S_journal), Opt(MNTOPT_GRPJQUOTA, FALSE, <<>>),
      Opt(MNTOPT_QUOTA, FALSE, <<>>),     Opt(MNTOPT_QUOTA, TRUE, S_q),
      Opt(S_jqfmt, TRUE, S_vfsv0),        Opt(S_rw, FALSE, <<>>) }

QfOptLists == UNION { [1..n -> QfOptions] : n \in 1..MaxOpts }

QfEnvs ==
    [ stat_errno : {0, ENOENT, EACCES}, open_errno : {0}, check_ret : {1} ]

QfCalls ==
    [ opts : QfOptLists, dir : {S_dir_a, S_dir_root}, type : QuotaTypes,
      fmt : {QF_VFSOLD, QF_VFSV0}, flags : {0, NF_EXIST}, env : QfEnvs ]

QfInit ==
    /\ qf_call \in QfCalls
    /\ qf_ret = NotCalled

\* a caller runs get_qf_name on the mount entry
GetQfName ==
    /\ ~qf_ret.called
    /\ qf_ret' = get_qf_name(OptsText(qf_call.opts), qf_call.dir, qf_call.type,
                             qf_call.fmt, qf_call.flags, qf_call.env)
    /\ UNCHANGED <<qf_call, clVars, kiVars, kqVars, build, scanVars>>

InitQf ==
    QfInit /\ ClQuiet /\ KiQuiet /\ KqQuiet /\ build = DefaultBuild /\ ScanQuiet

SpecQf == InitQf /\ [][GetQfName]_vars

-----------------------------------------------------------------------------
(* Filesystem classification: hasquota *)

MNTTYPE_XFS    == "xfs"
MNTTYPE_GFS2   == "gfs2"
MNTTYPE_OCFS2  == "ocfs2"
MNTTYPE_EXT4   == "ext4"
MNTTYPE_NFS    == "nfs"
MNTTYPE_NFS4   == "nfs4"
MNTTYPE_MPFS   == "mpfs"
MNTTYPE_AUTOFS == "autofs"

MS_NO_MNTPOINT  == 1
MS_NO_AUTOFS    == 2
MS_QUIET        == 4
MS_LOCALONLY    == 8
MS_XFS_DISABLED == 16
MS_NFS_ALL      == 32

DQF_SYS_FILE == 65536

nfs_fstype(type) == type \in {MNTTYPE_NFS, MNTTYPE_NFS4, MNTTYPE_MPFS}

meta_qf_fstype(type) == type = MNTTYPE_OCFS2

\* strstr(s + from - 1, sub): 0 when sub does not occur
strstr(s, from, sub) ==
    LET hits == { i \in from..(Len(s) - Len(sub) + 1) :
                    SubSeq(s, i, i + Len(sub) - 1) = sub }
    IN  IF hits = {} THEN 0 ELSE CHOOSE i \in hits : \A k \in hits : i <= k

\* the C library's hasmntopt on mnt->mnt_opts: 0 for NULL
RECURSIVE hasmntopt_from(_, _, _)
hasmntopt_from(mnt_opts, opt, rest) ==
    LET p == strstr(mnt_opts, rest, opt)
        c == strchr(mnt_opts, p, ",")
    IN  IF p = 0 THEN 0
        ELSE IF /\ (p = rest \/ CharAt(mnt_opts, p - 1) = ",")
                /\ CharAt(mnt_opts, p + Len(opt)) \in {NUL, "=", ","}
        THEN p
        ELSE IF c = 0 THEN 0
        ELSE hasmntopt_from(mnt_opts, opt, c + 1)

hasmntopt(mnt_opts, opt) == hasmntopt_from(mnt_opts, opt, 1)

\* xfs: [ok, qs_flags], the answer of quotactl(Q_XFS_GETQSTAT) for the device
hasxfsquota_no_type(mnt_dir, type, flags, xfs, roothack) ==
    IF HasFlag(flags, MS_XFS_DISABLED) THEN QF_XFS
    ELSE IF xfs.ok /\ (HasFlag(xfs.qs_flags, XFS_QUOTA_UDQ_ACCT)
                       \/ HasFlag(xfs.qs_flags, XFS_QUOTA_GDQ_ACCT))
    THEN QF_XFS
    ELSE QF_ERROR

hasxfsquota(mnt_dir, type, flags, xfs, roothack) ==
    LET sbflags == (xfs.qs_flags \div 256) % 256
    IN  IF HasFlag(flags, MS_XFS_DISABLED) THEN QF_XFS
        ELSE IF ~xfs.ok THEN QF_ERROR
        ELSE IF type = USRQUOTA /\ HasFlag(xfs.qs_flags, XFS_QUOTA_UDQ_ACCT)
        THEN QF_XFS
        ELSE IF type = GRPQUOTA /\ HasFlag(xfs.qs_flags, XFS_QUOTA_GDQ_ACCT)
        THEN QF_XFS
        ELSE IF ~roothack THEN QF_ERROR
        ELSE IF mnt_dir # <<"/">> THEN QF_ERROR
        ELSE IF type = USRQUOTA /\ HasFlag(sbflags, XFS_QUOTA_UDQ_ACCT)
        THEN QF_XFS
        ELSE IF type = GRPQUOTA /\ HasFlag(sbflags, XFS_QUOTA_GDQ_ACCT)
        THEN QF_XFS
        ELSE QF_ERROR

hasvfsmetaquota(getfmt_ok) == IF getfmt_ok THEN QF_META ELSE QF_ERROR

\* kern: what the kernel answers for the device:
\*   xfs        [ok, qs_flags] of quotactl(Q_XFS_GETQSTAT)
\*   getfmt_ok  whether quotactl(Q_GETFMT) succeeded
\*   getinfo    [ok, dqi_flags] of quotactl(Q_GETINFO)
hasquota(mnt_type, mnt_opts, mnt_dir, type, flags, kern, roothack) ==
    IF mnt_type = MNTTYPE_GFS2 \/ mnt_type = MNTTYPE_XFS
    THEN hasxfsquota(mnt_dir, type, flags, kern.xfs, roothack)
    ELSE IF mnt_type = MNTTYPE_OCFS2
    THEN hasvfsmetaquota(kern.getfmt_ok)
    ELSE IF /\ mnt_type = MNTTYPE_EXT4
            /\ kern.getinfo.ok
            /\ HasFlag(kern.getinfo.dqi_flags, DQF_SYS_FILE)
    THEN QF_META
    ELSE IF nfs_fstype(mnt_type) THEN QF_RPC
    ELSE IF /\ type = USRQUOTA
            /\ \/ hasmntopt(mnt_opts, MNTOPT_USRQUOTA) # 0
               \/ hasmntoptarg(mnt_opts, MNTOPT_USRJQUOTA) # 0
    THEN QF_VFSUNKNOWN
    ELSE IF /\ type = GRPQUOTA
            /\ \/ hasmntopt(mnt_opts, MNTOPT_GRPQUOTA) # 0
               \/ hasmntoptarg(mnt_opts, MNTOPT_GRPJQUOTA) # 0
    THEN QF_VFSUNKNOWN
    ELSE IF type = USRQUOTA /\ hasmntopt(mnt_opts, MNTOPT_QUOTA) # 0
    THEN QF_VFSUNKNOWN
    ELSE -1

ClKerns ==
    [ xfs : [ok : BOOLEAN,
             qs_flags : {0, XFS_QUOTA_UDQ_ACCT, XFS_QUOTA_GDQ_ACCT,
                         XFS_QUOTA_UDQ_ACCT + XFS_QUOTA_GDQ_ACCT,
                         XFS_QUOTA_UDQ_ACCT * 256,
                         XFS_QUOTA_GDQ_ACCT + XFS_QUOTA_UDQ_ACCT * 256,
                         XFS_QUOTA_UDQ_ACCT + XFS_QUOTA_GDQ_ACCT * 256}],
      getfmt_ok : BOOLEAN,
      getinfo : {[ok |-> FALSE, dqi_flags |-> 0], [ok |-> TRUE, dqi_flags |-> 0],
                 [ok |-> TRUE, dqi_flags |-> DQF_SYS_FILE]} ]

ClCalls ==
    [ mnt_type : {MNTTYPE_XFS, MNTTYPE_GFS2, MNTTYPE_OCFS2, MNTTYPE_EXT4,
                  MNTTYPE_NFS, "ext3"},
      mnt_opts : {S_rw, MNTOPT_USRQUOTA, MNTOPT_GRPQUOTA,
                  OptsText(<<Opt(MNTOPT_GRPJQUOTA, TRUE, S_aq_user)>>), MNTOPT_QUOTA},
      mnt_dir : {S_dir_root, S_dir_a},
      flags : {0, MS_XFS_DISABLED},
      kern : ClKerns ]

ClInit ==
    /\ cl_call \in ClCalls
    /\ cl_ret = NotCalled
    /\ build \in [roothack : BOOLEAN, rpc : {TRUE}]

\* cache_mnt_table classifies the record for both quota types
Classify ==
    /\ ~cl_ret.called
    /\ cl_ret' = [called |-> TRUE,
                  qfmt |-> [t \in QuotaTypes |->
                              hasquota(cl_call.mnt_type, cl_call.mnt_opts,
                                       cl_call.mnt_dir, t, cl_call.flags,
                                       cl_call.kern, build.roothack)]]
    /\ UNCHANGED <<cl_call, qfVars, kiVars, kqVars, build, scanVars>>

InitClassify == ClInit /\ QfQuiet /\ KiQuiet /\ KqQuiet /\ ScanQuiet

SpecClassify == InitClassify /\ [][Classify]_vars

-----------------------------------------------------------------------------
(* The machine the scans run on: device nodes, directories, symbolic links.
   Paths, mount options and target names are C strings. *)

P_dev_a       == <<"/","d","e","v","/","a">>
P_dev_a2      == <<"/","d","e","v","/","a","2">>
P_dev_b       == <<"/","d","e","v","/","b">>
P_dev_loop0   == <<"/","d","e","v","/","l","o","o","p","0">>
P_img         == <<"/","i","m","g">>
P_uuid_x      == <<"U","U","I","D","=","x">>
P_uuid_a      == <<"U","U","I","D","=","a">>
P_label_x     == <<"L","A","B","E","L","=","x">>
P_srv_x       == <<"s","r","v",":","/","x">>
P_srv_y       == <<"s","r","v",":","/","y">>
P_auto_map    == <<"a","u","t","o",".","x">>
D_a           == <<"/","a">>
D_c           == <<"/","c">>
D_b           == <<"/","b">>
D_o           == <<"/","o">>
D_l           == <<"/","l">>
D_auto        == <<"/","a","u","t","o">>
D_auto_x      == <<"/","a","u","t","o","/","x">>
D_autox       == <<"/","a","u","t","o","x">>
D_n           == <<"/","n">>
D_n2          == <<"/","n","2">>
D_lnk         == <<"/","l","n","k">>
D_magic       == <<"/","m","a","g","i","c">>
D_sub         == <<"/","a","/","s","u","b">>
D_gone        == <<"/","g","o","n","e">>
O_usr         == <<"u","s","r","q","u","o","t","a">>
O_grp         == <<"g","r","p","q","u","o","t","a">>
O_grp_noauto  == <<"g","r","p","q","u","o","t","a",",","n","o","a","u","t","o">>
O_rw          == <<"r","w">>
O_usr_bind    == <<"u","s","r","q","u","o","t","a",",","b","i","n","d">>
O_usr_noquota == <<"u","s","r","q","u","o","t","a",",","n","o","q","u","o","t","a">>
O_usr_loop    == <<"u","s","r","q","u","o","t","a",",","l","o","o","p","=","/","d","e","v","/","l","o","o","p","0">>
UUID_PREFIX   == <<"U","U","I","D","=">>
LABEL_PREFIX  == <<"L","A","B","E","L","=">>

\* the files stat() finds: block devices carry st_rdev, directories the
\* st_dev / st_ino of the filesystem visible at the path.  /dev/a2 is a second
\* node of device 1; /c is a second mountpoint of device 1; at /o device 2 is
\* mounted over device 1; /n and /n2 are two exports of one server
\* filesystem; /lnk is a symbolic link to /a.
FsNodes ==
    { [path |-> P_dev_a,     mode |-> "blk", st_dev |-> 5,  st_rdev |-> 1, st_ino |-> 101],
      [path |-> P_dev_a2,    mode |-> "blk", st_dev |-> 5,  st_rdev |-> 1, st_ino |-> 102],
      [path |-> P_dev_b,     mode |-> "blk", st_dev |-> 5,  st_rdev |-> 2, st_ino |-> 103],
      [path |-> P_dev_loop0, mode |-> "blk", st_dev |-> 5,  st_rdev |-> 7, st_ino |-> 104],
      [path |-> P_img,       mode |-> "reg", st_dev |-> 1,  st_rdev |-> 0, st_ino |-> 50],
      [path |-> D_a,         mode |-> "dir", st_dev |-> 1,  st_rdev |-> 0, st_ino |-> 2],
      [path |-> D_lnk,       mode |-> "dir", st_dev |-> 1,  st_rdev |-> 0, st_ino |-> 2],
      [path |-> D_c,         mode |-> "dir", st_dev |-> 1,  st_rdev |-> 0, st_ino |-> 2],
      [path |-> D_sub,       mode |-> "dir", st_dev |-> 1,  st_rdev |-> 0, st_ino |-> 77],
      [path |-> D_b,         mode |-> "dir", st_dev |-> 2,  st_rdev |-> 0, st_ino |-> 2],
      [path |-> D_o,         mode |-> "dir", st_dev |-> 2,  st_rdev |-> 0, st_ino |-> 2],
      [path |-> D_l,         mode |-> "dir", st_dev |-> 7,  st_rdev |-> 0, st_ino |-> 2],
      [path |-> D_auto,      mode |-> "dir", st_dev |-> 20, st_rdev |-> 0, st_ino |-> 1],
      [path |-> D_auto_x,    mode |-> "dir", st_dev |-> 2,  st_rdev |-> 0, st_ino |-> 2],
      [path |-> D_autox,     mode |-> "dir", st_dev |-> 2,  st_rdev |-> 0, st_ino |-> 2],
      [path |-> D_magic,     mode |-> "dir", st_dev |-> 21, st_rdev |-> 0, st_ino |-> 1],
      [path |-> D_n,         mode |-> "dir", st_dev |-> 30, st_rdev |-> 0, st_ino |-> 7],
      [path |-> D_n2,        mode |-> "dir", st_dev |-> 30, st_rdev |-> 0, st_ino |-> 8] }

NoStat == [ok |-> FALSE, mode |-> "none", st_dev |-> 0, st_rdev |-> 0, st_ino |-> 0]

\* stat(path, &st): ok is FALSE when the call returns -1
stat(path) ==
    IF \E n \in FsNodes : n.path = path
    THEN LET n == CHOOSE n \in FsNodes : n.path = path
         IN  [ok |-> TRUE, mode |-> n.mode, st_dev |-> n.st_dev,
              st_rdev |-> n.st_rdev, st_ino |-> n.st_ino]
    ELSE NoStat

S_ISDIR(st) == st.mode = "dir"
S_ISBLK(st) == st.mode = "blk"
S_ISCHR(st) == st.mode = "chr"

\* realpath(path, buf): the canonical path, ok FALSE for NULL
realpath(path) ==
    LET target == IF path = D_lnk THEN D_a ELSE path
    IN  IF stat(target).ok THEN [ok |-> TRUE, path |-> sstrncpy(target, PATH_MAX)]
        ELSE [ok |-> FALSE, path |-> NoName]

\* statfs(path, &fsstat): /magic is an automount point without blocks
statfs(path) ==
    IF ~stat(path).ok THEN [ok |-> FALSE, f_blocks |-> 0, f_bfree |-> 0, f_bavail |-> 0]
    ELSE IF path = D_magic
    THEN [ok |-> TRUE, f_blocks |-> 0, f_bfree |-> 0, f_bavail |-> 0]
    ELSE [ok |-> TRUE, f_blocks |-> 8, f_bfree |-> 4, f_bavail |-> 4]

IsPrefix(pre, s) == Len(pre) <= Len(s) /\ SubSeq(s, 1, Len(pre)) = pre

\* get_device_name: a copy of the name, or the device a UUID= / LABEL= names;
\* NoName stands for NULL (no device carries the identifier)
get_device_name(name) ==
    IF IsPrefix(UUID_PREFIX, name) \/ IsPrefix(LABEL_PREFIX, name)
    THEN IF name = P_uuid_a THEN P_dev_a ELSE NoName
    ELSE name

\* what the kernel answers to the quotactl calls of hasquota for a device of
\* this machine: no XFS statistics, no quota format, no quota info
KernelFor(devname) ==
    [ xfs |-> [ok |-> FALSE, qs_flags |-> 0],
      getfmt_ok |-> FALSE,
      getinfo |-> [ok |-> FALSE, dqi_flags |-> 0] ]

\* what an uninitialised char loopdev[PATH_MAX] can hold when it is read
LoopdevGarbage == { <<>>, P_dev_b }

-----------------------------------------------------------------------------
(* cache_mnt_table *)

MaxRecs == 3

Mnt(fsname, dir, type, opts) ==
    [mnt_fsname |-> fsname, mnt_dir |-> dir, mnt_type |-> type, mnt_opts |-> opts]

Records ==
    { Mnt(P_dev_a,    D_a,      "ext3", O_usr),
      Mnt(P_dev_a2,   D_c,      "ext3", O_grp),
      Mnt(P_dev_a,    D_o,      "ext3", O_usr),
      Mnt(P_dev_b,    D_b,      "ext3", O_grp_noauto),
      Mnt(P_dev_b,    D_auto_x, "ext3", O_usr),
      Mnt(P_dev_b,    D_magic,  "ext3", O_usr),
      Mnt(P_auto_map, D_auto,   MNTTYPE_AUTOFS, O_rw),
      Mnt(P_srv_x,    D_n,      MNTTYPE_NFS, O_rw),
      Mnt(P_srv_y,    D_n2,     MNTTYPE_NFS, O_rw),
      Mnt(P_dev_a,    D_a,      "ext3", O_rw),
      Mnt(P_dev_a,    D_a,      "ext3", O_usr_bind),
      Mnt(P_uuid_x,   D_a,      "ext3", O_usr),
      Mnt(P_img,      D_a,      "ext3", O_usr),
      Mnt(P_img,      D_l,      "ext3", O_usr_loop) }

Tables(recs, n) == UNION { [1..k -> recs] : k \in 0..n }

\* the record lies under a remembered autofs mountpoint (lines 1003-1009)
under_autofs_never(autofs, mnt_dir) == FALSE

under_autofs(autofs, mnt_dir) ==
    \E i \in 1..Len(autofs) :
        /\ Len(autofs[i]) <= Len(mnt_dir)
        /\ SubSeq(mnt_dir, 1, Len(autofs[i])) = autofs[i]

\* for (i = 0; i < mnt_entries_cnt && mnt_entries[i].me_dev != dev; i++);
\* with the entries numbered from 1: Len(entries) + 1 when there is none
find_me_dev(entries, dev) ==
    LET hits == { i \in 1..Len(entries) : entries[i].me_dev = dev }
    IN  IF hits = {} THEN Len(entries) + 1
        ELSE CHOOSE i \in hits : \A k \in hits : i <= k

\* one round of the while loop of cache_mnt_table on the record mnt, read at
\* position pos; g is what loopdev holds.  me_src is bookkeeping (the position
\* of the record an entry was made from), not a field of struct mount_entry.
cache_mnt_record(mnt, pos, g, flags, entries, autofs, roothack) ==
    LET devname0 == get_device_name(mnt.mnt_fsname)
        opt      == hasmntoptarg(mnt.mnt_opts, MNTOPT_LOOP)
        \* copy_mntoptarg(opt, loopdev, PATH_MAX): loopdev is copied over opt
        mnt_opts == IF opt # 0
                    THEN SubSeq(mnt.mnt_opts, 1, opt - 1) \o copy_mntoptarg(g, PATH_MAX)
                    ELSE mnt.mnt_opts
        devname  == IF opt # 0 THEN g ELSE devname0
        qfmt     == [t \in QuotaTypes |->
                        hasquota(mnt.mnt_type, mnt_opts, mnt.mnt_dir, t, flags,
                                 KernelFor(devname), roothack)]
        rp       == realpath(mnt.mnt_dir)
        fsstat   == statfs(rp.path)
        nfs      == nfs_fstype(mnt.mnt_type)
        st_devn  == stat(devname)
        st_dir   == stat(mnt.mnt_dir)
        dev      == IF nfs THEN st_dir.st_dev ELSE st_devn.st_rdev
        i        == IF nfs /\ HasFlag(flags, MS_NFS_ALL) THEN Len(entries) + 1
                    ELSE find_me_dev(entries, dev)
        skip(cl, d) == [entries |-> entries, autofsdir |-> autofs,
                        classified |-> cl, diag |-> d]
    IN  IF devname0 = NoName
        THEN skip(FALSE, {<<"Cannot get device name for", mnt.mnt_fsname>>})
        ELSE IF under_autofs(autofs, mnt.mnt_dir) THEN skip(FALSE, {})
        ELSE IF HasFlag(flags, MS_NO_AUTOFS) /\ mnt.mnt_type = MNTTYPE_AUTOFS
        THEN [entries |-> entries,
              autofsdir |-> Append(autofs, mnt.mnt_dir \o <<"/">>),
              classified |-> FALSE, diag |-> {}]
        ELSE IF HasFlag(flags, MS_LOCALONLY) /\ nfs THEN skip(FALSE, {})
        ELSE IF hasmntopt(mnt.mnt_opts, MNTOPT_NOQUOTA) # 0 THEN skip(FALSE, {})
        ELSE IF hasmntopt(mnt.mnt_opts, MNTOPT_BIND) # 0 THEN skip(FALSE, {})
        ELSE IF qfmt[USRQUOTA] < 0 /\ qfmt[GRPQUOTA] < 0 THEN skip(TRUE, {})
        ELSE IF ~rp.ok
        THEN skip(TRUE, {<<"Cannot resolve mountpoint path", mnt.mnt_dir>>})
        ELSE IF ~fsstat.ok THEN skip(TRUE, {<<"Cannot statfs()", rp.path>>})
        ELSE IF fsstat.f_blocks = 0 /\ fsstat.f_bfree = 0 /\ fsstat.f_bavail = 0
        THEN skip(TRUE, {})
        ELSE IF ~nfs /\ ~st_devn.ok
        THEN skip(TRUE, {<<"Cannot stat() mounted device", devname>>})
        ELSE IF ~nfs /\ ~S_ISBLK(st_devn) /\ ~S_ISCHR(st_devn)
        THEN skip(TRUE, {<<"unsupported device type", devname>>})
        ELSE IF (nfs \/ find_me_dev(entries, dev) = Len(entries) + 1) /\ ~st_dir.ok
        THEN skip(TRUE, {<<"Cannot stat() mountpoint", mnt.mnt_dir>>})
        ELSE IF i = Len(entries) + 1
        THEN [entries |-> Append(entries,
                            [me_type |-> mnt.mnt_type, me_opts |-> mnt_opts,
                             me_dev |-> dev, me_ino |-> st_dir.st_ino,
                             me_devname |-> devname, me__dir |-> rp.path,
                             me_dir |-> NoName, me_qfmt |-> qfmt,
                             me_src |-> pos]),
              autofsdir |-> autofs, classified |-> TRUE, diag |-> {}]
        ELSE skip(TRUE, {})

\* while ((mnt = getmntent(mntf))) { ... }: one record
CacheMntRecord ==
    /\ pc = "caching"
    /\ mpos < Len(mtab)
    /\ \E g \in LoopdevGarbage :
        \E r \in {cache_mnt_record(mtab[mpos + 1], mpos + 1, g, scan_flags,
                                      mnt_entries, autofsdir, build.roothack)} :
            /\ mnt_entries' = r.entries
            /\ autofsdir' = r.autofsdir
            /\ classified' = IF r.classified THEN classified \cup {mpos + 1}
                             ELSE classified
            /\ diag' = diag \cup r.diag
    /\ mpos' = mpos + 1
    /\ UNCHANGED <<mtab, scan_flags, selVars, procVars, qfVars, clVars, kiVars,
                   kqVars, build>>

\* getmntent returns NULL: endmntent, the autofs table is freed, return 0
CacheMntEnd ==
    /\ pc = "caching"
    /\ mpos = Len(mtab)
    /\ autofsdir' = <<>>
    /\ pc' = "cached"
    /\ UNCHANGED <<mtab, mpos, scan_flags, mnt_entries, classified, diag, selVars,
                   caller, hlist, gotmnt, ret, qfVars, clVars, kiVars, kqVars, build>>

CacheFlags ==
    { a + b + c : a \in {0, MS_NO_AUTOFS}, b \in {0, MS_LOCALONLY}, c \in {0, MS_NFS_ALL} }

\* cache_mnt_table(flags) has opened the mount table and allocated its tables
InitCache ==
    /\ mtab \in Tables(Records, MaxRecs)
    /\ mpos = 0
    /\ scan_flags \in CacheFlags
    /\ mnt_entries = <<>> /\ autofsdir = <<>> /\ classified = {} /\ diag = {}
    /\ dirs = <<>> /\ check_dirs = <<>> /\ act_checked = -1
    /\ pc = "caching"
    /\ caller = [kind |-> "init_mounts_scan", count |-> 0, fmt |-> -1, calls |-> 0]
    /\ hlist = <<>> /\ gotmnt = 0 /\ ret = NotCalled
    /\ build = DefaultBuild
    /\ QfQuiet /\ ClQuiet /\ KiQuiet /\ KqQuiet

CacheNext == CacheMntRecord \/ CacheMntEnd

SpecCache == InitCache /\ [][CacheNext]_vars

-----------------------------------------------------------------------------
(* process_dirs, get_next_mount, end_mounts_scan, create_handle_list *)

MaxScanRecs == 2
MaxDirs     == 2
MaxCalls    == 1
MaxListCalls == 2
MaxPastEnd  == 1

Returned(op, val) == [called |-> TRUE, op |-> op, val |-> val]

\* static const char *find_dir_mntpoint(struct stat *st)
find_dir_mntpoint(entries, st) ==
    LET i == find_me_dev(entries, st.st_dev)
    IN  IF i <= Len(entries)
        THEN [found |-> TRUE, st_ino |-> entries[i].me_ino, dir |-> entries[i].me__dir]
        ELSE [found |-> FALSE, st_ino |-> st.st_ino, dir |-> NoName]

\* one round of the for loop of process_dirs stores a searched_dir (ok) or
\* prints a diagnostic and goes on
sd_fail(d) == [ok |-> FALSE, sd |-> NoCall, diag |-> d]
sd_ok(isdir, dev, ino, name) ==
    [ok |-> TRUE, diag |-> {},
     sd |-> [sd_dir |-> isdir, sd_dev |-> dev, sd_ino |-> ino, sd_name |-> name]]

\* lines 1184-1189: the directory target after find_dir_mntpoint; rp is
\* realpath(realmnt)
process_dir_path(realmnt, rp, dev, ino) ==
    IF ~rp.ok THEN sd_fail({<<"Cannot resolve path", realmnt>>})
    ELSE sd_ok(TRUE, dev, ino, rp.path)

\* lines 1175-1190: the target is a directory; fm is find_dir_mntpoint(&st)
process_dir_directory(target, st, fm, flags) ==
    IF HasFlag(flags, MS_NO_MNTPOINT)
    THEN IF ~fm.found
         THEN sd_fail(IF HasFlag(flags, MS_QUIET) THEN {}
                      ELSE {<<"Cannot find a filesystem mountpoint for directory", target>>})
         ELSE process_dir_path(fm.dir, realpath(fm.dir), st.st_dev, fm.st_ino)
    ELSE process_dir_path(target, realpath(target), st.st_dev, st.st_ino)

\* lines 1191-1202: the target is a device; mentry is the entry found for
\* st_rdev.  sd_ino of a device target is never assigned by the code and
\* never read; it is 0 here.
process_dir_device(target, st, mentry, flags, entries) ==
    IF mentry = Len(entries) + 1
    THEN sd_fail(IF HasFlag(flags, MS_QUIET) THEN {}
                 ELSE {<<"Cannot find mountpoint for device", target>>})
    ELSE sd_ok(FALSE, st.st_rdev, 0, sstrncpy(entries[mentry].me__dir, PATH_MAX - 1))

\* lines 1174-1206: the target after stat() succeeded
process_dir_stat(target, st, flags, entries) ==
    IF S_ISDIR(st)
    THEN process_dir_directory(target, st, find_dir_mntpoint(entries, st), flags)
    ELSE IF S_ISBLK(st) \/ S_ISCHR(st)
    THEN process_dir_device(target, st, find_me_dev(entries, st.st_rdev), flags, entries)
    ELSE sd_fail({<<"Specified path is not directory nor device", target>>})

\* lines 1155-1173 and on: one target
process_dir_named(target, byid, devname, st, flags, entries) ==
    IF byid /\ devname = NoName
    THEN sd_fail({<<"Cannot find a device with", target>>})
    ELSE IF ~st.ok
    THEN sd_fail({<<IF byid THEN "Cannot stat() a mountpoint with"
                    ELSE "Cannot stat() given mountpoint", target>>})
    ELSE process_dir_stat(target, st, flags, entries)

process_dir_by(target, byid, flags, entries) ==
    process_dir_named(target, byid, get_device_name(target),
                      stat(IF byid THEN get_device_name(target) ELSE target),
                      flags, entries)

process_dir(target, flags, entries) ==
    process_dir_by(target,
                   IsPrefix(UUID_PREFIX, target) \/ IsPrefix(LABEL_PREFIX, target),
                   flags, entries)

\* the elements of a set of numbers in increasing order
Ascending(S) ==
    CHOOSE q \in [1..Cardinality(S) -> S] :
        \A a, b \in 1..Cardinality(S) : a < b => q[a] < q[b]

\* the for loop of process_dirs: every target is looked at on its own, the
\* searched_dirs of those that resolve are stored in the order of the
\* targets; sd_src is bookkeeping (the position of the target a searched_dir
\* was made from)
process_dirs_loop(targets, flags, entries) ==
    LET res  == [k \in 1..Len(targets) |-> process_dir(targets[k], flags, entries)]
        good == Ascending({ k \in 1..Len(targets) : res[k].ok })
    IN  [check_dirs |->
            [c \in 1..Len(good) |->
                [sd_dir |-> res[good[c]].sd.sd_dir, sd_dev |-> res[good[c]].sd.sd_dev,
                 sd_ino |-> res[good[c]].sd.sd_ino, sd_name |-> res[good[c]].sd.sd_name,
                 sd_src |-> good[c]]],
         diag |-> UNION { res[k].diag : k \in 1..Len(targets) }]

\* static int process_dirs(int dcnt, char **dirs, int flags)
process_dirs_all_or_nothing(targets, flags, entries) ==
    LET r == process_dirs_loop(targets, flags, entries)
    IN  IF Len(r.check_dirs) < Len(targets)
        THEN [ret |-> -1, check_dirs |-> <<>>, diag |-> r.diag]
        ELSE [ret |-> 0, check_dirs |-> r.check_dirs, diag |-> r.diag]

process_dirs(targets, flags, entries) ==
    LET r == process_dirs_loop(targets, flags, entries)
    IN  IF Len(targets) # 0 /\ Len(r.check_dirs) = 0
        THEN [ret |-> -1, check_dirs |-> <<>>,
              diag |-> r.diag \cup (IF HasFlag(flags, MS_QUIET) THEN {}
                                    ELSE {<<"No correct mountpoint specified.", <<>>>>})]
        ELSE [ret |-> 0, check_dirs |-> r.check_dirs, diag |-> r.diag]

\* static int find_next_entry_all(int *pos): pos is 0 when it returns 0
RECURSIVE find_next_entry_all(_, _)
find_next_entry_all(act, entries) ==
    LET a == act + 1
    IN  IF a >= Len(entries) THEN [found |-> FALSE, pos |-> 0, act |-> a, diag |-> {}]
        ELSE IF str_hasmntopt(entries[a + 1].me_opts, MNTOPT_NOAUTO) = 0
        THEN [found |-> TRUE, pos |-> a + 1, act |-> a, diag |-> {}]
        ELSE find_next_entry_all(a, entries)

\* the entry a searched_dir selects: the first with its device (and inode,
\* for a directory), Len(entries) + 1 when there is none
sel_match_always_inode(sd, entries) ==
    LET hits == { i \in 1..Len(entries) :
                    sd.sd_dev = entries[i].me_dev /\ sd.sd_ino = entries[i].me_ino }
    IN  IF hits = {} THEN Len(entries) + 1
        ELSE CHOOSE i \in hits : \A k \in hits : i <= k

sel_match(sd, entries) ==
    LET hits == { i \in 1..Len(entries) :
                    IF sd.sd_dir
                    THEN sd.sd_dev = entries[i].me_dev /\ sd.sd_ino = entries[i].me_ino
                    ELSE sd.sd_dev = entries[i].me_dev }
    IN  IF hits = {} THEN Len(entries) + 1
        ELSE CHOOSE i \in hits : \A k \in hits : i <= k

\* static int find_next_entry_sel(int *pos), while ++act_checked stays
\* inside check_dirs[0 .. check_dirs_cnt]
RECURSIVE find_next_entry_sel(_, _, _, _)
find_next_entry_sel(act, cds, entries, d) ==
    LET a  == act + 1
        sd == cds[a + 1]
        i  == sel_match(sd, entries)
    IN  IF a = Len(cds) THEN [found |-> FALSE, pos |-> 0, act |-> a, diag |-> d]
        ELSE IF i = Len(entries) + 1
        THEN find_next_entry_sel(a, cds, entries,
                d \cup {<<"not found or has no quota enabled", sd.sd_name>>})
        ELSE [found |-> TRUE, pos |-> i, act |-> a, diag |-> d]

\* struct mount_entry *get_next_mount(void), ++act_checked in bounds: the
\* position of the entry returned (0 for NULL) and the entries with the
\* alias me_dir set
get_next_mount(act, cds, entries) ==
    LET r == IF Len(cds) = 0 THEN find_next_entry_all(act, entries)
             ELSE find_next_entry_sel(act, cds, entries, {})
        alias == IF Len(cds) = 0 THEN entries[r.pos].me__dir
                 ELSE cds[r.act + 1].sd_name
    IN  [pos |-> r.pos, act |-> r.act, diag |-> r.diag,
         entries |-> IF r.found
                     THEN [entries EXCEPT ![r.pos].me_dir = alias]
                     ELSE entries]

\* void end_mounts_scan(void): both tables are released
EndScanState ==
    /\ mnt_entries' = <<>>
    /\ check_dirs' = <<>>

Targets == { P_dev_a, P_dev_b, D_a, D_o, P_uuid_x, D_gone, P_img }

TargetLists == Tables(Targets, MaxDirs)

ScanRecords ==
    { Mnt(P_dev_a, D_a, "ext3", O_usr),
      Mnt(P_dev_a, D_o, "ext3", O_usr),
      Mnt(P_dev_b, D_b, "ext3", O_grp_noauto),
      Mnt(P_srv_x, D_n, MNTTYPE_NFS, O_rw) }

ScanFlags == {0, MS_NO_MNTPOINT, MS_QUIET, MS_LOCALONLY}

ListFlags == {0, MS_LOCALONLY}

\* the arguments of the calls of create_handle_list a process makes: any of
\* these for its first list, all mounts in any format for a later one
ListCalls(n) ==
    IF n = 0
    THEN [dirs : TargetLists, flags : ListFlags, fmt : {-1, QF_VFSV0, QF_RPC}]
    ELSE [dirs : {<<>>}, flags : {0}, fmt : {-1}]

\* int init_mounts_scan(int dcnt, char **dirs, int flags), up to the point
\* where cache_mnt_table has opened the mount table; when no mount table can
\* be opened it has returned -1
InitMountsScan ==
    /\ pc = "idle"
    /\ caller.kind = "init_mounts_scan"
    /\ caller.calls < MaxCalls
    /\ caller' = [caller EXCEPT !.calls = caller.calls + 1]
    /\ \E d \in TargetLists, f \in ScanFlags, opened \in BOOLEAN :
        /\ dirs' = d
        /\ scan_flags' = f
        /\ mpos' = 0 /\ autofsdir' = <<>> /\ classified' = {}
        /\ IF opened
           THEN /\ pc' = "caching"
                /\ mnt_entries' = <<>>
                /\ diag' = {}
                /\ ret' = NotCalled
           ELSE /\ pc' = "idle"
                /\ diag' = {<<"Cannot open any file with mount points.", <<>>>>}
                /\ ret' = Returned("init_mounts_scan", -1)
                /\ UNCHANGED mnt_entries
    /\ UNCHANGED <<mtab, check_dirs, act_checked, hlist, gotmnt,
                   qfVars, clVars, kiVars, kqVars, build>>

\* create_handle_list(count, mntpoints, type, fmt, ioflags, mntflags) up to
\* the same point; when no mount table can be opened it has called die(2)
CreateHandleList ==
    /\ pc = "idle"
    /\ caller.kind = "create_handle_list"
    /\ caller.calls < MaxListCalls
    /\ \E c \in ListCalls(caller.calls), opened \in BOOLEAN :
      \E d \in {c.dirs}, f \in {c.flags}, fmt \in {c.fmt} :
        /\ dirs' = d
        /\ scan_flags' = IF Len(d) # 0 /\ ~HasFlag(f, MS_LOCALONLY)
                         THEN f + MS_NFS_ALL ELSE f
        /\ caller' = [caller EXCEPT !.count = Len(d), !.fmt = fmt,
                                    !.calls = caller.calls + 1]
        /\ gotmnt' = 0
        /\ mpos' = 0 /\ autofsdir' = <<>> /\ classified' = {}
        /\ IF opened
           THEN /\ pc' = "caching"
                /\ mnt_entries' = <<>>
                /\ diag' = {}
                /\ ret' = NotCalled
           ELSE /\ pc' = "exited"
                /\ diag' = {<<"Cannot open any file with mount points.", <<>>>>,
                            <<"Cannot initialize mountpoint scan.", <<>>>>}
                /\ ret' = Returned("exit", 2)
                /\ UNCHANGED mnt_entries
    /\ UNCHANGED <<mtab, check_dirs, act_checked, hlist,
                   qfVars, clVars, kiVars, kqVars, build>>

\* the rest of init_mounts_scan: process_dirs, and end_mounts_scan when it
\* fails; create_handle_list calls die(2) when init_mounts_scan returned -1
ProcessDirs ==
    /\ pc = "cached"
    /\ \E r \in {process_dirs(dirs, scan_flags, mnt_entries)} :
           /\ act_checked' = -1
           /\ diag' = diag \cup r.diag
                        \cup (IF r.ret < 0 /\ caller.kind = "create_handle_list"
                              THEN {<<"Cannot initialize mountpoint scan.", <<>>>>}
                              ELSE {})
           /\ IF r.ret = 0
              THEN /\ check_dirs' = r.check_dirs
                   /\ pc' = "scanning"
                   /\ ret' = Returned("init_mounts_scan", 0)
                   /\ UNCHANGED mnt_entries
              ELSE /\ EndScanState
                   /\ IF caller.kind = "create_handle_list"
                      THEN pc' = "exited" /\ ret' = Returned("exit", 2)
                      ELSE pc' = "idle" /\ ret' = Returned("init_mounts_scan", -1)
    /\ UNCHANGED <<mtab, mpos, scan_flags, autofsdir, classified, dirs, caller,
                   hlist, gotmnt, qfVars, clVars, kiVars, kqVars, build>>

\* get_next_mount() called by the caller of init_mounts_scan, as long as
\* ++act_checked stays inside the tables
GetNextMount ==
    /\ pc = "scanning"
    /\ caller.kind = "init_mounts_scan"
    /\ IF Len(check_dirs) = 0
       THEN act_checked < Len(mnt_entries) + MaxPastEnd
       ELSE act_checked < Len(check_dirs)
    /\ \E r \in {get_next_mount(act_checked, check_dirs, mnt_entries)} :
           /\ act_checked' = r.act
           /\ mnt_entries' = r.entries
           /\ diag' = diag \cup r.diag
           /\ ret' = Returned("get_next_mount", r.pos)
    /\ UNCHANGED <<mtab, mpos, scan_flags, autofsdir, classified, dirs, check_dirs,
                   pc, caller, hlist, gotmnt, qfVars, clVars, kiVars, kqVars, build>>

\* get_next_mount() called again after find_next_entry_sel returned 0:
\* ++act_checked steps over check_dirs_cnt, the test for the end never holds
\* again and check_dirs[act_checked] is read behind the table.  What is read
\* there is arbitrary: some entry of the cache matches it and is returned
\* with that memory as its alias, or the process dies on the access.
GetNextMountPastEnd ==
    /\ pc = "scanning"
    /\ caller.kind = "init_mounts_scan"
    /\ Len(check_dirs) # 0
    /\ act_checked >= Len(check_dirs)
    /\ act_checked < Len(check_dirs) + MaxPastEnd
    /\ act_checked' = act_checked + 1
    /\ \/ /\ pc' = "exited"
          /\ ret' = Returned("SIGSEGV", 0)
          /\ UNCHANGED mnt_entries
       \/ \E i \in 1..Len(mnt_entries), g \in LoopdevGarbage :
            /\ mnt_entries' = [mnt_entries EXCEPT ![i].me_dir = g]
            /\ ret' = Returned("get_next_mount", i)
            /\ UNCHANGED pc
    /\ UNCHANGED <<mtab, mpos, scan_flags, autofsdir, classified, diag, dirs,
                   check_dirs, caller, hlist, gotmnt, qfVars, clVars, kiVars,
                   kqVars, build>>

\* end_mounts_scan() called by the caller of init_mounts_scan
EndMountsScan ==
    /\ pc = "scanning"
    /\ caller.kind = "init_mounts_scan"
    /\ EndScanState
    /\ pc' = "idle"
    /\ ret' = Returned("end_mounts_scan", 0)
    /\ UNCHANGED <<mtab, mpos, scan_flags, autofsdir, classified, diag, dirs,
                   act_checked, caller, hlist, gotmnt, qfVars, clVars, kiVars,
                   kqVars, build>>

NullHandle == [null |-> TRUE]

\* init_io(mnt, type, fmt, ioflags) succeeded: the handle it returns
\* (a new object with every call: qh_serial tells the objects apart)
init_io(mnt, fmt, serial) ==
    [null |-> FALSE, qh_quotadev |-> mnt.me_devname, qh_fmt |-> fmt,
     qh_serial |-> serial]

\* hlist[k] = v, the slots numbered from 0
SetSlot(h, k, v) == IF k + 1 <= Len(h) THEN [h EXCEPT ![k + 1] = v] ELSE Append(h, v)

\* create_handle_list takes the mount into the list
chl_wants(mnt, fmt, count) ==
    LET xfs == mnt.me_type = MNTTYPE_XFS \/ mnt.me_type = MNTTYPE_GFS2
    IN  \/ fmt = -1 \/ count # 0
        \/ fmt = QF_RPC /\ nfs_fstype(mnt.me_type)
        \/ fmt = QF_XFS /\ xfs
        \/ fmt \notin {QF_RPC, QF_XFS} /\ ~xfs /\ ~nfs_fstype(mnt.me_type)

\* one round of while ((mnt = get_next_mount())) in create_handle_list; when
\* get_next_mount returns NULL the rest of the function: end_mounts_scan,
\* the terminator, and die(1) when count handles were asked for and not got
HandleListStep ==
    /\ pc = "scanning"
    /\ caller.kind = "create_handle_list"
    /\ \E r \in {get_next_mount(act_checked, check_dirs, mnt_entries)} :
       LET mnt == r.entries[r.pos]
       IN  /\ act_checked' = r.act
           /\ IF r.pos = 0
              THEN /\ EndScanState
                   /\ hlist' = SetSlot(hlist, gotmnt, NullHandle)
                   /\ UNCHANGED gotmnt
                   /\ IF caller.count # 0 /\ gotmnt # caller.count
                      THEN /\ pc' = "exited"
                           /\ ret' = Returned("exit", 1)
                           /\ diag' = diag \cup r.diag \cup
                                {<<"Not all specified mountpoints are using quota.", <<>>>>}
                      ELSE /\ pc' = "idle"
                           /\ ret' = Returned("create_handle_list", gotmnt)
                           /\ diag' = diag \cup r.diag
              ELSE /\ mnt_entries' = r.entries
                   /\ diag' = diag \cup r.diag
                   /\ UNCHANGED <<check_dirs, pc, ret>>
                   /\ IF (~build.rpc /\ nfs_fstype(mnt.me_type))
                         \/ ~chl_wants(mnt, caller.fmt, caller.count)
                      THEN UNCHANGED <<hlist, gotmnt>>
                      ELSE \/ /\ hlist' = SetSlot(hlist, gotmnt,
                                               init_io(mnt, caller.fmt,
                                                       <<caller.calls, gotmnt>>))
                              /\ gotmnt' = gotmnt + 1
                           \/ /\ hlist' = SetSlot(hlist, gotmnt, NullHandle)
                              /\ UNCHANGED gotmnt
    /\ UNCHANGED <<mtab, mpos, scan_flags, autofsdir, classified, dirs, caller,
                   qfVars, clVars, kiVars, kqVars, build>>

\* a process that has not scanned yet: it either drives the scan itself
\* or builds handle lists
InitScan ==
    /\ mtab \in Tables(ScanRecords, MaxScanRecs)
    /\ caller \in [kind : {"init_mounts_scan", "create_handle_list"},
                   count : {0}, fmt : {-1}, calls : {0}]
    /\ build \in [roothack : {FALSE}, rpc : BOOLEAN]
    /\ caller.kind = "init_mounts_scan" => build = DefaultBuild
    /\ mpos = 0 /\ scan_flags = 0 /\ mnt_entries = <<>>
    /\ autofsdir = <<>> /\ classified = {} /\ diag = {}
    /\ dirs = <<>> /\ check_dirs = <<>> /\ act_checked = -1
    /\ pc = "idle" /\ hlist = <<>> /\ gotmnt = 0 /\ ret = NotCalled
    /\ QfQuiet /\ ClQuiet /\ KiQuiet /\ KqQuiet

ScanNext ==
    \/ InitMountsScan
    \/ CreateHandleList
    \/ CacheMntRecord
    \/ CacheMntEnd
    \/ ProcessDirs
    \/ GetNextMount
    \/ GetNextMountPastEnd
    \/ EndMountsScan
    \/ HandleListStep

SpecScan == InitScan /\ [][ScanNext]_vars

-----------------------------------------------------------------------------
(* Claims about get_qf_name, stated on the option list the option string   *)
(* was written from.                                                       *)

IsSuffix(a, b) ==
    Len(a) <= Len(b) /\ SubSeq(b, Len(b) - Len(a) + 1, Len(b)) = a

\* index of the first option of that name, 0 when there is none
FirstOpt(os, name) ==
    IF \E i \in 1..Len(os) : os[i].name = name
    THEN CHOOSE i \in 1..Len(os) :
            os[i].name = name /\ \A k \in 1..(i - 1) : os[k].name # name
    ELSE 0

PlainName(type) == IF type = USRQUOTA THEN MNTOPT_USRQUOTA ELSE MNTOPT_GRPQUOTA
JournalName(type) == IF type = USRQUOTA THEN MNTOPT_USRJQUOTA ELSE MNTOPT_GRPJQUOTA

\* the option carries '=' and the '=' is not directly followed by ','
JournalArgGiven(os, i) == os[i].eq /\ (os[i].arg # <<>> \/ i = Len(os))

ExpectedDefault(dir, type, fmt) ==
    dir \o <<"/">>
        \o (IF fmt = QF_VFSOLD THEN <<"q","u","o","t","a">>
            ELSE <<"a","q","u","o","t","a">>)
        \o <<".">>
        \o (IF type = USRQUOTA THEN <<"u","s","e","r">> ELSE <<"g","r","o","u","p">>)

\* C3: for both quota types, when the options hold the plain enable option
\* with an argument (usrquota=P, grpquota=P), get_qf_name with no checks
\* requested succeeds and returns exactly P.
C3_PlainOptionArgumentReturned ==
    (qf_ret.called /\ qf_call.flags = 0) =>
        LET i == FirstOpt(qf_call.opts, PlainName(qf_call.type))
        IN  (i # 0 /\ qf_call.opts[i].eq) =>
                (qf_ret.ret = 0 /\ qf_ret.filename = qf_call.opts[i].arg)

\* the journal scenario: usrjquota=/my/journal,jqfmt=vfsv0 for the user type
JournalScenario ==
    /\ qf_call.opts = << Opt(MNTOPT_USRJQUOTA, TRUE, S_journal),
                         Opt(S_jqfmt, TRUE, S_vfsv0) >>
    /\ qf_call.type = USRQUOTA

\* the type's journaled option decides: no plain option of the type comes
\* first, and the first journaled option of the type has an argument
JournalDecides ==
    /\ FirstOpt(qf_call.opts, PlainName(qf_call.type)) = 0
    /\ FirstOpt(qf_call.opts, JournalName(qf_call.type)) # 0
    /\ JournalArgGiven(qf_call.opts, FirstOpt(qf_call.opts, JournalName(qf_call.type)))

JournalArg == qf_call.opts[FirstOpt(qf_call.opts, JournalName(qf_call.type))].arg

\* C4 as stated: for usrjquota=/my/journal,jqfmt=vfsv0 the user path is
\* "<mountpoint>/my/journal", and in general the journaled argument is taken
\* relative to the mountpoint and cut at the next ','.
C4_JournalScenarioAsStated ==
    (qf_ret.called /\ qf_call.flags = 0) =>
        /\ JournalScenario => qf_ret.filename = qf_call.dir \o S_journal
        /\ JournalDecides =>
              qf_ret.filename = qf_call.dir \o <<"/">> \o JournalArg

\* C4 amended: when the type's journaled option decides, the path is the
\* mountpoint, one '/', and the argument up to the next ','; for
\* usrjquota=/my/journal that is "<mountpoint>//my/journal".
C4_JournalArgumentAfterSlash ==
    qf_ret.called =>
        /\ (JournalDecides /\ qf_call.flags = 0) => qf_ret.ret = 0
        /\ (JournalDecides /\ qf_ret.ret = 0) =>
              qf_ret.filename = qf_call.dir \o <<"/">> \o JournalArg
        /\ (JournalScenario /\ qf_ret.ret = 0) =>
              qf_ret.filename = qf_call.dir \o <<"/">> \o S_journal

C4_Witness ==
    /\ qf_ret.called /\ JournalScenario /\ qf_call.dir = S_dir_a
    /\ qf_ret.filename =
          <<"/","a","/","/","m","y","/","j","o","u","r","n","a","l">>

\* an option of the list that overrides the path for the type
IsOverride(os, i, type) ==
    \/ os[i].name = PlainName(type) /\ os[i].eq
    \/ os[i].name = JournalName(type) /\ JournalArgGiven(os, i)
    \/ type = USRQUOTA /\ os[i].name = MNTOPT_QUOTA /\ os[i].eq

\* the options enable quota for the type
EnablesQuota(os, type) ==
    \E i \in 1..Len(os) :
        \/ os[i].name = PlainName(type)
        \/ os[i].name = JournalName(type) /\ JournalArgGiven(os, i)
        \/ type = USRQUOTA /\ os[i].name = MNTOPT_QUOTA

\* C5 as stated: the default name is returned exactly when the options
\* enable quota for the type without an override for it, and an override
\* present anywhere in the option string is used instead of the default.
C5_DefaultIffNoOverrideAnywhere ==
    (qf_ret.called /\ qf_call.flags = 0) =>
        LET os == qf_call.opts
            t  == qf_call.type
            over == { i \in 1..Len(os) : IsOverride(os, i, t) }
        IN  /\ (EnablesQuota(os, t) /\ over = {}) =>
                  (qf_ret.ret = 0 /\
                   qf_ret.filename = ExpectedDefault(qf_call.dir, t, qf_call.fmt))
            /\ over # {} =>
                  (qf_ret.ret = 0 /\
                   \E i \in over : IsSuffix(os[i].arg, qf_ret.filename))

\* the option get_qf_name settles on: the first plain option of the type,
\* else the first journaled option of the type when it has an argument,
\* else (user only) the first "quota" option; 0 when there is none
DecidingOpt(os, type) ==
    LET p == FirstOpt(os, PlainName(type))
        j == FirstOpt(os, JournalName(type))
        q == FirstOpt(os, MNTOPT_QUOTA)
    IN  IF p # 0 THEN p
        ELSE IF j # 0 /\ JournalArgGiven(os, j) THEN j
        ELSE IF type = USRQUOTA THEN q
        ELSE 0

\* C5 amended: get_qf_name settles on one option (DecidingOpt); it returns
\* the default name when that option is not followed by '=', a name ending
\* in that option's argument when it is, and fails when there is none; an
\* override carried by any other option is ignored.
C5_DefaultFromDecidingOption ==
    qf_ret.called =>
        LET os == qf_call.opts
            d  == DecidingOpt(os, qf_call.type)
        IN  /\ d = 0 => qf_ret.ret = -1
            /\ (d # 0 /\ qf_call.flags = 0) => qf_ret.ret = 0
            /\ (d # 0 /\ qf_ret.ret = 0 /\ ~os[d].eq) =>
                  qf_ret.filename =
                      ExpectedDefault(qf_call.dir, qf_call.type, qf_call.fmt)
            /\ (d # 0 /\ qf_ret.ret = 0 /\ os[d].eq) =>
                  /\ IsSuffix(os[d].arg, qf_ret.filename)
                  /\ Len(qf_ret.filename) <= Len(qf_call.dir) + Len(os[d].arg) + 1

\* ext3 with usrquota, v0 format: "<mountpoint>/aquota.user"
C5_Witness ==
    /\ qf_ret.called
    /\ qf_call.opts = << Opt(MNTOPT_USRQUOTA, FALSE, <<>>) >>
    /\ qf_call.type = USRQUOTA /\ qf_call.fmt = QF_VFSV0 /\ qf_call.dir = S_dir_a
    /\ qf_ret.filename = <<"/","a","/","a","q","u","o","t","a",".","u","s","e","r">>

\* get_qf_name was called with NF_EXIST on options that name a quota file
\* of the type
ExistenceChecked ==
    /\ qf_ret.called
    /\ HasFlag(qf_call.flags, NF_EXIST)
    /\ qf_branch(OptsText(qf_call.opts), qf_call.dir, qf_call.type).found

\* C12 as stated: with NF_EXIST requested, a stat failure with ENOENT does
\* not make the resolution fail, while every other stat error is reported
\* with a diagnostic and makes it fail.
C12_AbsenceDoesNotFail ==
    ExistenceChecked =>
        /\ qf_call.env.stat_errno = ENOENT => qf_ret.ret = 0
        /\ qf_call.env.stat_errno \notin {0, ENOENT} =>
                (qf_ret.ret = -1 /\ qf_ret.diag)

\* C12 amended: with NF_EXIST requested, every stat failure makes the
\* resolution fail and store no name; the failure is silent when the error
\* is ENOENT and is reported with a diagnostic otherwise.
C12_AbsenceFailsSilently ==
    ExistenceChecked =>
        /\ qf_call.env.stat_errno # 0 =>
                /\ qf_ret.ret = -1 /\ qf_ret.filename = NoName
                /\ qf_ret.diag <=> qf_call.env.stat_errno # ENOENT
        /\ (qf_call.env.stat_errno = 0 /\ qf_call.flags = NF_EXIST) =>
                (qf_ret.ret = 0 /\ ~qf_ret.diag)

\* the default user quota file of /a does not exist: no name, no diagnostic
C12_Witness ==
    /\ ExistenceChecked
    /\ qf_call.type = USRQUOTA /\ qf_call.dir = S_dir_a
    /\ qf_call.opts = <<Opt(MNTOPT_USRQUOTA, FALSE, <<>>)>>
    /\ qf_call.env.stat_errno = ENOENT
    /\ qf_ret.ret = -1 /\ ~qf_ret.diag

-----------------------------------------------------------------------------
(* Claims about kern_quota_on *)

\* C6: kern_quota_on returns -1 whenever the mount's classified format for
\* the type is negative, for every requested format (the wildcard -1
\* included), every interface generation and every syscall outcome.
C6_UnclassifiedNeverActive ==
    (kq_ret.called /\ kq_call.me_qfmt < 0) => kq_ret.ret = -1

\* an unclassified mount on which the live format query would have answered
C6_Witness ==
    /\ kq_ret.called /\ kq_call.me_qfmt < 0 /\ kq_call.fmt = -1
    /\ kernel_iface = IFACE_GENERIC
    /\ kq_call.env.getfmt = [ok |-> TRUE, fmt |-> QFMT_VFS_V0]
    /\ kq_ret.ret = -1

\* C7 as stated: a mount classified QF_META is reported active (QF_META) for
\* every requested format and every interface generation.
C7_MetaActiveForEveryRequest ==
    (kq_ret.called /\ kq_call.me_qfmt = QF_META) => kq_ret.ret = QF_META

\* C7 amended: a mount classified QF_META is reported active (QF_META) for
\* every requested format other than QF_RPC and QF_XFS, under every
\* interface generation and syscall outcome; a request for QF_RPC or QF_XFS
\* gets -1.
C7_MetaActiveUnlessRpcOrXfsRequested ==
    (kq_ret.called /\ kq_call.me_qfmt = QF_META) =>
        IF kq_call.fmt \in {QF_RPC, QF_XFS}
        THEN kq_ret.ret = -1
        ELSE kq_ret.ret = QF_META

\* a metadata mount asked about with the wildcard on a legacy interface
\* whose get-quota probes would both fail
C7_Witness ==
    /\ kq_ret.called /\ kq_call.me_qfmt = QF_META /\ kq_call.fmt = -1
    /\ kernel_iface = IFACE_VFSOLD
    /\ ~kq_call.env.v2_getquota /\ ~kq_call.env.v1_getquota
    /\ kq_ret.ret = QF_META

\* C17: whenever kern_quota_on is called with a specific requested format
\* (not the wildcard -1) and returns a format rather than -1, the returned
\* format is the requested one, under every interface generation and every
\* classified format of the mount.
C17_ReturnedFormatIsRequested ==
    (kq_ret.called /\ kq_call.fmt # -1 /\ kq_ret.ret # -1)
        => kq_ret.ret = kq_call.fmt

-----------------------------------------------------------------------------
(* Claims about hasquota *)

XfsFamily == cl_call.mnt_type \in {MNTTYPE_XFS, MNTTYPE_GFS2}

AcctBit(type) ==
    IF type = USRQUOTA THEN XFS_QUOTA_UDQ_ACCT ELSE XFS_QUOTA_GDQ_ACCT

\* C10 as stated: for an xfs or gfs2 mount classified without
\* MS_XFS_DISABLED (the statistics call answering), each type is classified
\* from its own accounting bit alone: QF_XFS when the bit is set, none when
\* it is clear; with MS_XFS_DISABLED both types are QF_XFS.
C10_XfsFromOwnAccountingBit ==
    (cl_ret.called /\ XfsFamily) =>
        IF HasFlag(cl_call.flags, MS_XFS_DISABLED)
        THEN \A t \in QuotaTypes : cl_ret.qfmt[t] = QF_XFS
        ELSE cl_call.kern.xfs.ok =>
                \A t \in QuotaTypes :
                    cl_ret.qfmt[t] =
                        IF HasFlag(cl_call.kern.xfs.qs_flags, AcctBit(t))
                        THEN QF_XFS ELSE QF_ERROR

\* the root-filesystem fallback applies: an XFS_ROOTHACK build looking at "/"
RootHackApplies == build.roothack /\ cl_call.mnt_dir = <<"/">>

\* C10 amended: as stated, except that in a build with XFS_ROOTHACK a mount
\* on "/" whose accounting bit for the type is clear is still QF_XFS when the
\* type's bit is set in the high byte (bits 8-15) of qs_flags; and when the
\* statistics call fails both types are none.
C10_XfsFromOwnBitOrRootHack ==
    (cl_ret.called /\ XfsFamily) =>
        IF HasFlag(cl_call.flags, MS_XFS_DISABLED)
        THEN \A t \in QuotaTypes : cl_ret.qfmt[t] = QF_XFS
        ELSE \A t \in QuotaTypes :
                cl_ret.qfmt[t] =
                    IF /\ cl_call.kern.xfs.ok
                       /\ \/ HasFlag(cl_call.kern.xfs.qs_flags, AcctBit(t))
                          \/ /\ RootHackApplies
                             /\ HasFlag(cl_call.kern.xfs.qs_flags, AcctBit(t) * 256)
                    THEN QF_XFS ELSE QF_ERROR

\* group accounting on, user accounting off: group QF_XFS, user none
C10_Witness ==
    /\ cl_ret.called /\ cl_call.mnt_type = MNTTYPE_XFS /\ cl_call.flags = 0
    /\ cl_call.kern.xfs = [ok |-> TRUE, qs_flags |-> XFS_QUOTA_GDQ_ACCT]
    /\ cl_ret.qfmt[GRPQUOTA] = QF_XFS
    /\ cl_ret.qfmt[USRQUOTA] = QF_ERROR

-----------------------------------------------------------------------------
(* Claims about cache_mnt_table *)

\* the argument F of a loop=F option of the record, <<>> when it has none
LoopFile(mnt) ==
    LET p == hasmntoptarg(mnt.mnt_opts, MNTOPT_LOOP)
    IN  IF p = 0 THEN <<>>
        ELSE copy_mntoptarg(StrFrom(mnt.mnt_opts, p), PATH_MAX)

\* the device path of a record: the loop file when one is named, else the
\* device the filesystem name resolves to
RecordDevPath(mnt) ==
    IF LoopFile(mnt) # <<>> THEN LoopFile(mnt)
    ELSE get_device_name(mnt.mnt_fsname)

IsRemote(mnt) == mnt.mnt_type \in {MNTTYPE_NFS, MNTTYPE_NFS4, MNTTYPE_MPFS}

\* the device identity of a record: the device number of the device node of
\* a local mount, the device number of the root directory of a remote one
Identity(mnt) ==
    IF IsRemote(mnt) THEN stat(mnt.mnt_dir).st_dev
    ELSE stat(RecordDevPath(mnt)).st_rdev

RecordFormats(mnt) ==
    [t \in QuotaTypes |->
        hasquota(mnt.mnt_type, mnt.mnt_opts, mnt.mnt_dir, t, scan_flags,
                 KernelFor(RecordDevPath(mnt)), build.roothack)]

\* d names a directory below a
IsDescendant(d, a) == Len(d) > Len(a) + 1 /\ IsPrefix(a \o <<"/">>, d)

\* the autofs filter drops record k: the record is an autofs mount, or it
\* lies below an autofs mountpoint read before it
AutofsFiltered(k) ==
    /\ HasFlag(scan_flags, MS_NO_AUTOFS)
    /\ \/ mtab[k].mnt_type = MNTTYPE_AUTOFS
       \/ \E j \in 1..(k - 1) :
            /\ mtab[j].mnt_type = MNTTYPE_AUTOFS
            /\ IsDescendant(mtab[k].mnt_dir, mtab[j].mnt_dir)

HasOption(mnt, name) ==
    \E p \in 1..Len(mnt.mnt_opts) :
        /\ p = 1 \/ mnt.mnt_opts[p - 1] = ","
        /\ IsPrefix(name, StrFrom(mnt.mnt_opts, p))
        /\ CharAt(mnt.mnt_opts, p + Len(name)) \in {NUL, ",", "="}

\* record k passes every filter of cache_mnt_table
PassesFilters(k) ==
    LET mnt == mtab[k]
        nodeOk == stat(RecordDevPath(mnt)).mode \in {"blk", "chr"}
    IN  /\ get_device_name(mnt.mnt_fsname) # NoName
        /\ ~AutofsFiltered(k)
        /\ ~(HasFlag(scan_flags, MS_LOCALONLY) /\ IsRemote(mnt))
        /\ ~HasOption(mnt, MNTOPT_NOQUOTA)
        /\ ~HasOption(mnt, MNTOPT_BIND)
        /\ \E t \in QuotaTypes : RecordFormats(mnt)[t] >= 0
        /\ realpath(mnt.mnt_dir).ok
        /\ statfs(realpath(mnt.mnt_dir).path).ok
        /\ statfs(realpath(mnt.mnt_dir).path).f_blocks # 0
        /\ IsRemote(mnt) \/ nodeOk
        /\ stat(mnt.mnt_dir).ok

\* the records read so far that must have an entry of their own: those that
\* pass the filters and are the first of their device identity, and every
\* remote one that passes when MS_NFS_ALL is set
Kept ==
    { k \in 1..mpos :
        /\ PassesFilters(k)
        /\ \/ IsRemote(mtab[k]) /\ HasFlag(scan_flags, MS_NFS_ALL)
           \/ ~\E j \in 1..(k - 1) :
                 PassesFilters(j) /\ Identity(mtab[j]) = Identity(mtab[k]) }

\* entry e holds what record mnt says
EntryOfRecord(e, mnt) ==
    /\ e.me_type = mnt.mnt_type
    /\ e.me_opts = mnt.mnt_opts
    /\ e.me_devname = RecordDevPath(mnt)
    /\ e.me_dev = Identity(mnt)
    /\ e.me_qfmt = RecordFormats(mnt)

\* C1 as stated: after any number of records, the cache holds exactly one
\* entry for each group of filter-passing records of one device identity,
\* made from the first record of the group (type, options, device path and
\* formats are that record's), in first-seen order; under MS_NFS_ALL every
\* filter-passing remote record has an entry of its own.
C1_OneEntryPerIdentityFirstSeen ==
    (pc \in {"caching", "cached"}) =>
        LET kept == Kept
            first == Ascending(kept)
        IN  /\ Len(mnt_entries) = Cardinality(kept)
            /\ \A i \in 1..Len(mnt_entries) :
                /\ mnt_entries[i].me_src = first[i]
                /\ EntryOfRecord(mnt_entries[i], mtab[first[i]])

NoLoopRecords == \A k \in 1..Len(mtab) : LoopFile(mtab[k]) = <<>>

\* the same statement for tables without a loop= option (not a claim of
\* its own: it shows what is left of C1 when the loop handling is set aside)
DedupWithoutLoop == NoLoopRecords => C1_OneEntryPerIdentityFirstSeen

\* C13: when a record's options contain loop=F with a non-empty F, F (the
\* argument up to the next ',') is the device path cache_mnt_table uses: the
\* cached entry carries F as its device name and the record's unchanged
\* option string, and a diagnostic about the mounted device names F.
C13_LoopArgumentIsDevicePath ==
    /\ \A i \in 1..Len(mnt_entries) :
          LoopFile(mtab[mnt_entries[i].me_src]) # <<>> =>
              /\ mnt_entries[i].me_devname = LoopFile(mtab[mnt_entries[i].me_src])
              /\ mnt_entries[i].me_opts = mtab[mnt_entries[i].me_src].mnt_opts
    /\ \A d \in diag :
          d[1] \in {"Cannot stat() mounted device", "unsupported device type"} =>
              \E k \in 1..mpos : d[2] = RecordDevPath(mtab[k])

\* record k was classified or has an entry in the cache
Touched(k) ==
    \/ k \in classified
    \/ \E i \in 1..Len(mnt_entries) : mnt_entries[i].me_src = k

\* C2 as stated: whatever the table and the flags, a record whose mountpoint
\* lies below an autofs mountpoint of the table is never classified and
\* never cached.
C2_NoDescendantOfAnyAutofsTouched ==
    \A k \in 1..mpos :
        (\E j \in 1..Len(mtab) :
            /\ mtab[j].mnt_type = MNTTYPE_AUTOFS
            /\ IsDescendant(mtab[k].mnt_dir, mtab[j].mnt_dir))
        => ~Touched(k)

\* C2 amended: when MS_NO_AUTOFS is set, a record whose mountpoint lies
\* below the mountpoint of an autofs record read before it (one whose
\* device name could be resolved) is never classified and never cached.
C2_NoDescendantOfEarlierAutofsTouched ==
    HasFlag(scan_flags, MS_NO_AUTOFS) =>
        \A k \in 1..mpos :
            (\E j \in 1..(k - 1) :
                /\ mtab[j].mnt_type = MNTTYPE_AUTOFS
                /\ get_device_name(mtab[j].mnt_fsname) # NoName
                /\ IsDescendant(mtab[k].mnt_dir, mtab[j].mnt_dir))
            => ~Touched(k)

\* a quota-enabled record below an autofs mountpoint was read and dropped,
\* while a record outside the autofs tree was cached
C2_Witness ==
    /\ HasFlag(scan_flags, MS_NO_AUTOFS)
    /\ mpos = 3
    /\ mtab[1].mnt_type = MNTTYPE_AUTOFS
    /\ mtab[2].mnt_dir = D_auto_x /\ mtab[2].mnt_opts = O_usr
    /\ mtab[3].mnt_dir = D_b
    /\ classified = {3}
    /\ Len(mnt_entries) = 1 /\ mnt_entries[1].me_src = 3

-----------------------------------------------------------------------------
(* Claims about target selection *)

\* the position of the entry the first get_next_mount of a scan for the
\* single target yields on the present cache, 0 when the scan fails to
\* start or yields nothing
FirstYield(target) ==
    LET pd == process_dirs(<<target>>, scan_flags, mnt_entries)
    IN  IF pd.ret < 0 THEN 0
        ELSE get_next_mount(-1, pd.check_dirs, mnt_entries).pos

CacheComplete == pc = "scanning"

IsLocalEntry(e) == ~IsRemote([mnt_type |-> e.me_type])

\* C8 as stated, taken for the cached mounts that have a device node (the
\* local ones): the scan for the device node and the scan for the canonical
\* mountpoint both yield an entry, and the same.
C8_DeviceAndDirectoryYieldSame ==
    CacheComplete =>
        \A i \in 1..Len(mnt_entries) :
            IsLocalEntry(mnt_entries[i]) =>
                /\ FirstYield(mnt_entries[i].me_devname) # 0
                /\ FirstYield(mnt_entries[i].me_devname)
                        = FirstYield(mnt_entries[i].me__dir)

\* the mountpoint of the entry shows the entry's own device
MountpointOnOwnDevice(e) == stat(e.me__dir).ok /\ stat(e.me__dir).st_dev = e.me_dev

\* C8 amended: for every cached mount of a local filesystem whose canonical
\* mountpoint, when examined, lies on the mount's own device, the scan for
\* the device node and the scan for the mountpoint both yield that entry.
C8_LocalTopMountYieldsSame ==
    CacheComplete =>
        \A i \in 1..Len(mnt_entries) :
            (IsLocalEntry(mnt_entries[i]) /\ MountpointOnOwnDevice(mnt_entries[i]))
            => /\ FirstYield(mnt_entries[i].me_devname) = i
               /\ FirstYield(mnt_entries[i].me__dir) = i

\* a scan for the device node /dev/b yielded the second entry of the cache,
\* whose mountpoint /b lies on that device
C8_Witness ==
    /\ pc = "scanning" /\ caller.kind = "init_mounts_scan"
    /\ dirs = <<P_dev_b>>
    /\ Len(mnt_entries) = 2
    /\ mnt_entries[2].me_devname = P_dev_b /\ mnt_entries[2].me__dir = D_b
    /\ ret = Returned("get_next_mount", 2)
    /\ FirstYield(D_b) = 2

\* target k of the scan names a UUID or label no device carries
Unresolvable(k) ==
    /\ IsPrefix(UUID_PREFIX, dirs[k]) \/ IsPrefix(LABEL_PREFIX, dirs[k])
    /\ get_device_name(dirs[k]) = NoName

\* process_dirs has run in the present call
ProcessDirsDone ==
    /\ ret.called
    /\ <<"Cannot open any file with mount points.", <<>>>> \notin diag

ScanFailed == ret.called /\ ret.op = "init_mounts_scan" /\ ret.val = -1
ProcessExited == pc = "exited"

\* the caller asked for as many handles as targets (count is non-zero in
\* create_handle_list) and did not get them
ExactCountUnmet ==
    /\ caller.kind = "create_handle_list"
    /\ caller.count # 0
    /\ gotmnt # caller.count

\* an unresolvable target is reported, leaves no searched_dir, and the
\* targets that do resolve are all kept, in the order given
UnresolvableSkipped ==
    ProcessDirsDone =>
        /\ \A k \in 1..Len(dirs) :
            Unresolvable(k) =>
                /\ <<"Cannot find a device with", dirs[k]>> \in diag
                /\ \A c \in 1..Len(check_dirs) : check_dirs[c].sd_src # k
        /\ pc = "scanning" =>
            /\ \A k \in 1..Len(dirs) :
                process_dir(dirs[k], scan_flags, mnt_entries).ok
                    => \E c \in 1..Len(check_dirs) : check_dirs[c].sd_src = k
            /\ \A c, d \in 1..Len(check_dirs) :
                c < d => check_dirs[c].sd_src < check_dirs[d].sd_src

\* C9 as stated: an unresolvable target is reported and skipped and the scan
\* goes on with the other targets; the scan fails only when an exact count
\* was asked for and is unmet; and a failed scan leaves the process running
\* with the scan released, so that it can try again.
C9_FatalOnlyOnExactCountAndRetryable ==
    /\ UnresolvableSkipped
    /\ (ProcessDirsDone /\ (ScanFailed \/ ProcessExited)) =>
            /\ ExactCountUnmet
            /\ pc = "idle" /\ mnt_entries = <<>> /\ check_dirs = <<>>

\* no target was of the kind that resolves whatever the cache holds (an
\* existing directory, scanned without MS_NO_MNTPOINT); the cache itself is
\* gone once the scan has failed
NoTargetResolved ==
    /\ Len(dirs) # 0
    /\ \A k \in 1..Len(dirs) : ~process_dir(dirs[k], scan_flags, <<>>).ok

\* C9 amended: an unresolvable target is reported and skipped and the scan
\* goes on with the other targets.  init_mounts_scan fails exactly when
\* targets were given and none of them resolved; it has then released the
\* scan and returned -1, and the process runs on.  create_handle_list never
\* returns from a failure: it ends the process with status 2 when
\* init_mounts_scan failed, and with status 1 when count is non-zero and the
\* number of handles differs from count, which is always the case when one
\* of the targets was unresolvable.
C9_SkippedAndFatalAsCoded ==
    /\ UnresolvableSkipped
    /\ ProcessDirsDone =>
        /\ ScanFailed =>
            /\ caller.kind = "init_mounts_scan"
            /\ NoTargetResolved
            /\ pc = "idle" /\ mnt_entries = <<>> /\ check_dirs = <<>>
        /\ (caller.kind = "init_mounts_scan" /\ pc = "scanning") =>
            (Len(dirs) = 0 \/ Len(check_dirs) # 0)
        /\ ProcessExited =>
            \/ ret.op = "SIGSEGV"
            \/ /\ caller.kind = "create_handle_list"
               /\ mnt_entries = <<>> /\ check_dirs = <<>>
               /\ \/ ret = Returned("exit", 2) /\ NoTargetResolved
                  \/ ret = Returned("exit", 1) /\ ExactCountUnmet
        /\ (caller.kind = "create_handle_list" /\ pc = "idle") =>
            /\ ret = Returned("create_handle_list", gotmnt)
            /\ caller.count = 0 \/ gotmnt = caller.count
            /\ \A k \in 1..Len(dirs) : ~Unresolvable(k)

\* UUID=x was reported and skipped, the scan went on with /a and yielded
\* its entry
C9_Witness ==
    /\ pc = "scanning" /\ caller.kind = "init_mounts_scan"
    /\ dirs = <<P_uuid_x, D_a>>
    /\ <<"Cannot find a device with", P_uuid_x>> \in diag
    /\ Len(check_dirs) = 1 /\ check_dirs[1].sd_src = 2
    /\ ret = Returned("get_next_mount", 1)

-----------------------------------------------------------------------------
(* Claims about the iteration: get_next_mount *)

\* the step is a get_next_mount call of the caller of init_mounts_scan
GetNextMountStep ==
    /\ pc = "scanning" /\ caller.kind = "init_mounts_scan"
    /\ act_checked' # act_checked

\* entry i is the first cached entry with the device (and, for a directory
\* target, the inode) of the searched_dir
Matches(sd, e) ==
    /\ sd.sd_dev = e.me_dev
    /\ sd.sd_dir => sd.sd_ino = e.me_ino

FirstMatching(sd, i) ==
    /\ i \in 1..Len(mnt_entries)
    /\ Matches(sd, mnt_entries[i])
    /\ \A k \in 1..(i - 1) : ~Matches(sd, mnt_entries[k])

NoneMatching(sd) == \A k \in 1..Len(mnt_entries) : ~Matches(sd, mnt_entries[k])

\* what a get_next_mount step in selected-targets mode does: it passes over
\* targets without a matching entry, reporting each, and either yields the
\* first entry matching the next target, with the target's name as alias,
\* or reaches the end of the targets and yields nothing
SelectedStepInOrder ==
    /\ ret'.op = "get_next_mount"
    /\ act_checked' > act_checked /\ act_checked' <= Len(check_dirs)
    /\ \A k \in (act_checked + 1)..(act_checked' - 1) :
          /\ NoneMatching(check_dirs[k + 1])
          /\ <<"not found or has no quota enabled", check_dirs[k + 1].sd_name>>
                \in diag'
    /\ IF ret'.val = 0
       THEN act_checked' = Len(check_dirs) /\ mnt_entries' = mnt_entries
       ELSE /\ act_checked' < Len(check_dirs)
            /\ FirstMatching(check_dirs[act_checked' + 1], ret'.val)
            /\ mnt_entries' = [mnt_entries EXCEPT ![ret'.val].me_dir =
                                    check_dirs[act_checked' + 1].sd_name]

\* C16: in selected-targets mode successive get_next_mount calls visit the
\* resolved targets in the order given; a yielded entry is the first cached
\* entry matching its target, with the alias me_dir set to the target's
\* name; a target without a match is reported and passed over; every yield
\* uses up a target of its own, so there are never more yields than
\* resolved targets.
C16_SelectedTargetsVisitedInOrder ==
    [][(GetNextMountStep /\ Len(check_dirs) # 0) => SelectedStepInOrder]_vars

\* the same for the calls up to the one that returns NULL (not a claim of
\* its own: it shows what is left of C16 when the calls after the end of
\* the targets are set aside)
SelectedInOrderUpToNull ==
    [][(GetNextMountStep /\ Len(check_dirs) # 0 /\ act_checked < Len(check_dirs))
            => SelectedStepInOrder]_vars

\* C18: between a successful init_mounts_scan and end_mounts_scan, once
\* get_next_mount has returned NULL every later call returns NULL too, and
\* the index it reads at stays inside the searched-dir table (selected
\* targets) or the entry table (all mounts).
C18_NullIsFinal ==
    [][(GetNextMountStep /\ ret = Returned("get_next_mount", 0)) =>
            /\ ret' = Returned("get_next_mount", 0)
            /\ pc' = "scanning"
            /\ mnt_entries' = mnt_entries
            /\ Len(check_dirs) # 0 => act_checked' <= Len(check_dirs)]_vars

-----------------------------------------------------------------------------
(* Claims about create_handle_list *)

\* a create_handle_list call is running and the process holds the list an
\* earlier call returned; that list lies in hlist[0 .. Len(hlist) - 1], the
\* array every call returns
LaterListCallRunning ==
    /\ caller.kind = "create_handle_list"
    /\ caller.calls >= 2
    /\ pc \in {"caching", "cached", "scanning"}

\* C19: a handle list create_handle_list has returned is left unchanged by
\* a later create_handle_list call: its slots and its NULL terminator
\* denote the same handles whatever the later call does.
C19_EarlierListUnchanged ==
    [][LaterListCallRunning =>
            \A k \in 1..Len(hlist) : hlist'[k] = hlist[k]]_vars

-----------------------------------------------------------------------------
(* Claims about init_kernel_interface *)

\* the dispositions a caller can have installed for SIGSEGV
CallerHandlers == {"SIG_DFL", "handler"}

\* C11: on every path through init_kernel_interface that returns, the
\* SIGSEGV handler installed before the call is the one installed after it;
\* SIG_IGN is in place only between the install and the restore; and a
\* process that died on a failed install or restore never returns.
C11_HandlerRestoredOnReturn ==
    /\ \A h \in CallerHandlers :
          (sigsegv = h) =>
              [](/\ ki_pc = "returned" => sigsegv = h
                 /\ ki_pc = "start" => sigsegv = h
                 /\ ki_pc \in {"probing", "restoring"} => sigsegv = "SIG_IGN"
                 /\ ki_pc = "exited" => sigsegv \in {h, "SIG_IGN"})
    /\ [](ki_pc = "exited" => [](ki_pc = "exited"))

\* a run that was entered with the caller's own handler, probed, and came
\* back with that handler installed again
C11_Witness ==
    /\ ki_pc = "returned"
    /\ ki_probes # NoCall
    /\ ki_oldsig = "handler" /\ sigsegv = "handler"

\* C14: after every run of init_kernel_interface that returns, whatever the
\* probes answered, kernel_iface is one of GENERIC, VFSV0-LEGACY and
\* VFSOLD-LEGACY.
C14_InterfaceAssignedOnReturn ==
    ki_pc = "returned" =>
        kernel_iface \in {IFACE_GENERIC, IFACE_VFSV0, IFACE_VFSOLD}

\* the run took the version-1 disambiguation: no generic control path, and
\* the version-2 statistics call failed with neither ENOSYS nor ENOTSUP
LegacyDisambiguated ==
    /\ ki_probes # NoCall
    /\ ki_probes.quota_proc = ENOENT
    /\ ki_probes.v2_stats \notin {0, ENOSYS, ENOTSUP}

\* C15: in that case VFSV0-LEGACY is selected, and v0 recorded as
\* supported, exactly when the version-1 statistics call succeeded and the
\* version-1 get-quota call on the null device failed with EINVAL; every
\* other pair of outcomes selects VFSOLD-LEGACY and records the old format.
C15_LegacyByBothErrorCodes ==
    LegacyDisambiguated =>
        IF ki_probes.v1_stats = 0 /\ ki_probes.v1_quota = EINVAL
        THEN /\ kernel_iface = IFACE_VFSV0
             /\ kern_qfmt_supp(QF_VFSV0, kernel_qfmt)
             /\ ~kern_qfmt_supp(QF_VFSOLD, kernel_qfmt)
        ELSE /\ kernel_iface = IFACE_VFSOLD
             /\ kern_qfmt_supp(QF_VFSOLD, kernel_qfmt)
             /\ ~kern_qfmt_supp(QF_VFSV0, kernel_qfmt)

\* the version-1 statistics call succeeded but get-quota did not fail with
\* EINVAL: the old interface was selected
C15_Witness ==
    /\ ki_pc = "returned"
    /\ LegacyDisambiguated
    /\ ki_probes.v1_stats = 0 /\ ki_probes.v1_quota = ENOENT
    /\ kernel_iface = IFACE_VFSOLD

====
